---- MODULE Spec2Model ----
(***************************************************************************)
(* A model of the raw-socket MITM proxy of src/mitm_proxy.py:              *)
(* MITMProxyServer.get_target_domain (the domain-rule resolver) and the    *)
(* per-connection handler handle_request / handle_connect / do_mitm /      *)
(* do_tunnel / forward_http / relay_data.                                  *)
(*                                                                         *)
(* Python strings are sequences of one-character strings, so that         *)
(* str.split, the 'in' test and str.endswith are computed and not assumed. *)
(***************************************************************************)
EXTENDS Integers, Sequences, FiniteSets, TLC

\* ------------------------------------------------------------- bounds
\* Longest host string handed to the resolver in SpecResolve.
MaxLen == 3
\* Most rules in a rule set of SpecResolve.
MaxRules == 2
\* Cap on the counted consecutive select() timeouts of one relay.
MaxIdle == 1
MaxBytes == 2

\* the records or segments a peer sends during one relay
MaxRecords == 1

\* ------------------------------------------------------------ strings
COLON == <<":">>
SCHEME_SEP == <<":", "/", "/">>

\* s[i..] starts with sub
StartsAt(s, sub, i) ==
    /\ i + Len(sub) - 1 <= Len(s)
    /\ \A k \in 1..Len(sub) : s[i + k - 1] = sub[k]

\* Python: sub in s
Contains(s, sub) == \E i \in 1..(Len(s) + 1) : StartsAt(s, sub, i)

\* Position of the leftmost occurrence of sub in s, 0 when there is none.
FindFirst(s, sub) ==
    IF Contains(s, sub)
    THEN CHOOSE i \in 1..(Len(s) + 1) :
            /\ StartsAt(s, sub, i)
            /\ \A j \in 1..(i - 1) : ~StartsAt(s, sub, j)
    ELSE 0

\* Python: s.endswith(suf)
EndsWith(s, suf) ==
    /\ Len(suf) <= Len(s)
    /\ \A k \in 1..Len(suf) : s[Len(s) - Len(suf) + k] = suf[k]

\* Python: s.split(sep), sep non-empty: the list of the pieces of s.
RECURSIVE Split(_, _)
Split(s, sep) ==
    LET i == FindFirst(s, sep) IN
    IF i = 0 THEN <<s>>
    ELSE <<SubSeq(s, 1, i - 1)>> \o Split(SubSeq(s, i + Len(sep), Len(s)), sep)

\* Python: s.replace(old, new) for one-character old and new.
Replace(s, old, new) == [k \in 1..Len(s) |-> IF s[k] = old THEN new ELSE s[k]]

Last(seq) == seq[Len(seq)]

\* ----------------------------------------------------------- resolver
\* key.split('://')[-1] if '://' in key else key          (lines 197, 199)
StripScheme(s) == IF Contains(s, SCHEME_SEP) THEN Last(Split(s, SCHEME_SEP)) ELSE s

\* domain = original_domain.split(':')[0]; if '://' in domain: ...[1]
StrippedDomain(original_domain) ==
    LET domain == Split(original_domain, COLON)[1] IN
    IF Contains(domain, SCHEME_SEP) THEN Split(domain, SCHEME_SEP)[2] ELSE domain

\* Mutant: a suffix matches only on a label boundary.
RuleMatchesDotBoundary(domain, key) ==
    LET key_domain == IF Contains(key, SCHEME_SEP) THEN Last(Split(key, SCHEME_SEP))
                      ELSE key
    IN  domain = key_domain \/ EndsWith(domain, <<".">> \o key_domain)

\* domain == key_domain or domain.endswith(key_domain)
RuleMatches(domain, key) ==
    LET key_domain == StripScheme(key) IN
    domain = key_domain \/ EndsWith(domain, key_domain)

\* A rule set is the sequence of the (key, value) items of the dict, in the
\* dict's iteration order; the loop returns at the first item that matches.
get_target_domain(ruleset, original_domain) ==
    LET domain == StrippedDomain(original_domain)
        hits == {i \in 1..Len(ruleset) : RuleMatches(domain, ruleset[i][1])}
    IN  IF hits = {} THEN domain
        ELSE LET first == CHOOSE i \in hits : \A j \in hits : i <= j
             IN  StripScheme(ruleset[first][2])

\* ------------------------------------------------------------ numbers
Digits == <<"0", "1", "2", "3", "4", "5", "6", "7", "8", "9">>

IsDigit(ch) == \E k \in 1..10 : Digits[k] = ch

DigitVal(ch) == (CHOOSE k \in 1..10 : Digits[k] = ch) - 1

\* int(s) succeeds (decimal digits only; signs, blanks and '_' are not drawn)
IsInt(s) == Len(s) > 0 /\ \A k \in 1..Len(s) : IsDigit(s[k])

RECURSIVE IntOf(_)
IntOf(s) ==
    IF Len(s) = 0 THEN 0
    ELSE 10 * IntOf(SubSeq(s, 1, Len(s) - 1)) + DigitVal(s[Len(s)])

\* port == 443                                                  (line 368)
TLS_PORT == 443
\* port = 443 when the CONNECT target has no ':'                (line 276)
DEFAULT_CONNECT_PORT == 443
\* parsed.port or 80                                            (line 399)
DEFAULT_HTTP_PORT == 80

\* ------------------------------------------------------ configuration
\* The worker threads, one per accepted client socket (run, lines 458-466).
Conns == {"c1", "c2"}

\* An unset string (a Python None or '' where a string is expected).
None == <<>>

M_X == <<"m", ".", "x">>
T_X == <<"t", ".", "x">>
U_X == <<"u", ".", "x">>

\* The proxy_rules of the loaded config.json, one of these per run.
ProxyRuleSets ==
    { << <<M_X, T_X>> >>,
      << <<M_X, M_X>> >> }

\* The request heads a client sends: the tokens parts[0], parts[1] of the first
\* line, the Host header (None when absent), and whether CRLF CRLF arrived
\* before the peer closed.
Req(method, url, hostHdr, complete) ==
    [method |-> method, url |-> url, host |-> hostHdr, complete |-> complete,
     tokens |-> 2]

Requests ==
    { Req("CONNECT", M_X \o <<":", "4", "4", "3">>, None, TRUE),
      Req("connect", <<"n">> \o M_X \o <<":", "8", "0">>, None, TRUE),
      Req("CONNECT", U_X \o <<":", "4", "4", "3">>, None, TRUE),
      Req("CONNECT", U_X \o <<":", "8", "0">>, None, TRUE),
      Req("CONNECT", U_X, None, FALSE),
      Req("CONNECT", M_X \o <<":", "x">>, None, TRUE),
      Req("CONNECT", M_X \o <<":", "4", ":", "3">>, None, FALSE),
      Req("GET", <<"h", ":", "/", "/">> \o U_X \o <<"/">>, None, TRUE),
      Req("GET", <<"/">>, None, TRUE),
      Req("GET", <<"h", ":", "/", "/">> \o U_X \o <<":", "8", "1", "/">>, None, TRUE),
      Req("GET", <<"/">>, M_X, TRUE),
      [method |-> "GET", url |-> <<>>, host |-> None, complete |-> FALSE,
       tokens |-> 1] }

\* method.upper()
Upper(method) == IF method = "connect" THEN "CONNECT" ELSE method

\* f"temp_{original_host.replace('.', '_')}.crt" / ".key"   (lines 320-321)
TempFile(original_host, ext) == <<Replace(original_host, ".", "_"), ext>>


\* --------------------------------------------------------- URL parsing
HTTP_PREFIX == <<"h", "t", "t", "p", ":", "/", "/">>

\* Mutant: a request without a Host header is given a host.
FullUrlAssumesHost(r) ==
    IF ~Contains(r.url, SCHEME_SEP)
    THEN HTTP_PREFIX \o (IF r.host # None THEN r.host ELSE U_X) \o r.url
    ELSE r.url

\* url = f'http://{host}{url}' when '://' is not in url and a Host header
\* was found                                                (lines 239-246)
FullUrl(r) ==
    IF ~Contains(r.url, SCHEME_SEP) /\ r.host # None
    THEN HTTP_PREFIX \o r.host \o r.url
    ELSE r.url

\* urlparse(url).netloc: what follows scheme:// up to the next '/'
Netloc(url) ==
    IF Contains(url, SCHEME_SEP)
    THEN LET i == FindFirst(url, SCHEME_SEP)
             rest == SubSeq(url, i + 3, Len(url))
         IN  Split(rest, <<"/">>)[1]
    ELSE None

\* netloc after the mapping of lines 252-256
MappedNetloc(ruleset, netloc) ==
    LET mapped_domain == get_target_domain(ruleset, netloc) IN
    IF mapped_domain # netloc THEN mapped_domain ELSE netloc

\* urlparse(url).hostname and .port of a netloc; .port raises on a port that
\* is no integer
Hostname(netloc) == Split(netloc, COLON)[1]
HasPort(netloc) == Len(Split(netloc, COLON)) > 1 /\ Split(netloc, COLON)[2] # <<>>
PortOk(netloc) == ~HasPort(netloc) \/ IsInt(Split(netloc, COLON)[2])
PortOr80(netloc) ==
    IF HasPort(netloc) /\ IntOf(Split(netloc, COLON)[2]) # 0
    THEN IntOf(Split(netloc, COLON)[2])
    ELSE DEFAULT_HTTP_PORT

\* ------------------------------------------------------ CONNECT parsing
\* host, port = target.split(':'); port = int(port)         (lines 271-276)
ConnectParses(target) ==
    \/ ~Contains(target, COLON)
    \/ Len(Split(target, COLON)) = 2 /\ IsInt(Split(target, COLON)[2])

ConnectHost(target) ==
    IF Contains(target, COLON) THEN Split(target, COLON)[1] ELSE target

\* Mutant: a target without a port gets the port of plain HTTP.
ConnectPortHttpDefault(target) ==
    IF Contains(target, COLON) THEN IntOf(Split(target, COLON)[2])
    ELSE 80

ConnectPort(target) ==
    IF Contains(target, COLON) THEN IntOf(Split(target, COLON)[2])
    ELSE DEFAULT_CONNECT_PORT

\* Mutant: every CONNECT is intercepted, mapped or not.
ConnectModeAlwaysMitm(host, mapped_host) == "MITM"

\* if mapped_host != host: do_mitm(...) else: do_tunnel(...)  (lines 282-289)
ConnectMode(host, mapped_host) == IF mapped_host # host THEN "MITM" ELSE "Tunnel"

\* Mutant: the leaf certificate names the host that is dialed.
IssueDomainResolved(original_host, target_host) == target_host

\* generate_cert_for_domain(original_host)                      (line 317)
IssueDomain(original_host, target_host) == original_host

\* target_socket.connect((target_host, port))                   (line 307)
DialAddress(original_host, target_host, p) == <<target_host, p>>


\* --------------------------------------------------------------- state
VARIABLES
    rules,          \* self.config['proxy_rules'], in iteration order
    disk,           \* the files in cert_dir: pairs <<file, who wrote it>>
    pc,             \* where each worker stands
    request,        \* the head the worker read
    mode,           \* "none", "MITM", "Tunnel" or "PlainForward"
    original_host,  \* handle_connect's original_host
    target_host,    \* the host handed to connect()
    port,           \* the port handed to connect()
    client,         \* the client leg: its descriptor and the object that owns it
    upstream,       \* the upstream leg, likewise
    target_socket,  \* what the local name target_socket is bound to
    cert_file,      \* do_mitm's cert_file (None until line 320)
    key_file,       \* do_mitm's key_file (None until line 321)
    leaf,           \* the domain the session's leaf certificate names
    loaded,         \* the writer of the pair load_cert_chain read
    dialed,         \* the addresses connect() was called with, in order
    events,         \* what the worker has done, in order
    idle,           \* consecutive select() timeouts of the running relay
    rCalled,        \* SpecResolve: get_target_domain has been called
    rIn,            \* SpecResolve: its argument
    rOut,           \* SpecResolve: what it returned
    headSent,       \* the request head forward_http wrote to the upstream
    inbox,          \* per side: the bytes that have arrived and recv has not returned yet
    eof,            \* per side: the peer has closed its sending direction
    got,            \* per side: the bytes recv has returned to the relay
    put,            \* per side: the bytes the relay has handed to sendall and that were written
    ready,          \* the part of select's 'readable' the for loop has still to visit
    data,           \* the chunk the relay holds between recv and sendall
    program,        \* which program runs: "app" (app.py) or "reverse" (proxy_server.py)
    apiRules,       \* the proxy_rules of the dict the management interface holds
    configFile,     \* config.json: what a reader of the file finds
    apiPc,          \* where the management call in progress stands
    apiOp,          \* the management call in progress, or the last one, its result, and
                    \* the dict and the file as the call found them
    ops,            \* the management calls made so far
    held,           \* every rule set the management interface has held
    rAck,           \* what the management interface had answered when resolve was called
    seen,           \* what the last reader of config.json found
    startup,        \* where the process stands between its start and its listener
    yielded,        \* the CA pair the last load of CertManager yielded
    yieldedPrev,    \* the pair the load before it yielded
    gens,           \* the CA pairs generated so far
    touched,        \* somebody else changed a CA file since the last load
    found,          \* what the last load found in cert_dir
    issued,         \* the last leaf generate_cert_for_domain built
    revCalled,      \* SpecResolve: the reverse proxy has looked the same host up
    rRev,           \* SpecResolve: what its lookup returned
    wire,           \* SpecTLS: the lengths of the records waiting at each descriptor
    buffered,       \* SpecTLS: plaintext bytes held inside each SSLSocket
    delivered,      \* SpecTLS: the lengths of the records each peer has sent
    written,        \* SpecTLS: the bytes sendall has written to each side
    chunk           \* SpecTLS: what recv(4096) returned: its side and length

sessVars == <<request, mode, original_host, target_host, port>>
sockVars == <<client, upstream, target_socket>>
fileVars == <<disk, cert_file, key_file, leaf, loaded>>
resolveVars == <<rCalled, rIn, rOut>>
ioVars == <<inbox, eof, got, put, ready, data>>
tlsVars == <<wire, buffered, delivered, written, chunk>>
byteVars == <<headSent, ioVars, tlsVars>>
adminVars == <<program, apiRules, configFile, apiPc, apiOp, ops, held, rAck, seen>>
caVars == <<startup, yielded, yieldedPrev, gens, touched, found, issued>>
revVars == <<revCalled, rRev>>
mgmtVars == <<adminVars, caVars, revVars>>
workerVars == <<pc, sessVars, sockVars, fileVars, dialed, events, idle, byteVars>>
vars == <<rules, pc, sessVars, sockVars, fileVars, dialed, events, idle, resolveVars, byteVars,
          mgmtVars>>

\* the two legs relay_data is handed, in the order of its list 'sockets'
Sides == {"client", "target"}

\* Mutant: a chunk is written back to the side it was read from.
OtherEcho(side) == side

\* if sock is client_socket: target_socket.sendall(data)
\* else: client_socket.sendall(data)                        (lines 436-439)
Other(side) == IF side = "client" THEN "target" ELSE "client"
NoData == [from |-> "client", bytes |-> <<>>]
NoChunk == [from |-> "client", len |-> 0]

\* cert_dir / "ca-cert.pem" and cert_dir / "ca-key.pem": CertManager's
\* constructor has loaded them or written them               (lines 30-50)
CA_CERT_FILE == <<<<"c", "a", "-", "c", "e", "r", "t">>, "pem">>
CA_KEY_FILE == <<<<"c", "a", "-", "k", "e", "y">>, "pem">>
CAFiles == {<<CA_CERT_FILE, "ca">>, <<CA_KEY_FILE, "ca">>}

NoSock == [fd |-> "none", owner |-> "raw"]
NoReq == [method |-> "", url |-> None, host |-> None, complete |-> FALSE, tokens |-> 0]

\* The workers' state before any socket is accepted.
InitWorkers ==
    /\ disk = CAFiles
    /\ pc = [c \in Conns |-> "idle"]
    /\ request = [c \in Conns |-> NoReq]
    /\ mode = [c \in Conns |-> "none"]
    /\ original_host = [c \in Conns |-> None]
    /\ target_host = [c \in Conns |-> None]
    /\ port = [c \in Conns |-> 0]
    /\ client = [c \in Conns |-> NoSock]
    /\ upstream = [c \in Conns |-> NoSock]
    /\ target_socket = [c \in Conns |-> "unbound"]
    /\ cert_file = [c \in Conns |-> None]
    /\ key_file = [c \in Conns |-> None]
    /\ leaf = [c \in Conns |-> None]
    /\ loaded = [c \in Conns |-> "nobody"]
    /\ dialed = [c \in Conns |-> <<>>]
    /\ events = [c \in Conns |-> <<>>]
    /\ idle = [c \in Conns |-> 0]
    /\ headSent = [c \in Conns |-> NoReq]
    /\ inbox = [c \in Conns |-> [s \in Sides |-> <<>>]]
    /\ eof = [c \in Conns |-> [s \in Sides |-> FALSE]]
    /\ got = [c \in Conns |-> [s \in Sides |-> <<>>]]
    /\ put = [c \in Conns |-> [s \in Sides |-> <<>>]]
    /\ ready = [c \in Conns |-> <<>>]
    /\ data = [c \in Conns |-> NoData]
    /\ wire = [c \in Conns |-> [s \in Sides |-> <<>>]]
    /\ buffered = [c \in Conns |-> [s \in Sides |-> 0]]
    /\ delivered = [c \in Conns |-> [s \in Sides |-> <<>>]]
    /\ written = [c \in Conns |-> [s \in Sides |-> 0]]
    /\ chunk = [c \in Conns |-> NoChunk]

\* No management call has been made: the dict of the management interface
\* was loaded from the same config.json as the proxy's
NoOp == [op |-> "none", source |-> None, target |-> None, result |-> "none",
         config |-> <<>>, before |-> <<>>, fileBefore |-> [state |-> "complete", rules |-> <<>>]]
NoCA == [cert |-> "none", key |-> "none"]
NoLeaf == [domain |-> None, san |-> <<>>]
NothingFound == [files |-> "unread", untouched |-> TRUE]

\* The listener runs with the CA it loaded from the persisted pair.
InitLoaded ==
    /\ startup = "listening"
    /\ yielded = [cert |-> "ca", key |-> "ca"]
    /\ yieldedPrev = [cert |-> "ca", key |-> "ca"]
    /\ gens = 0
    /\ touched = FALSE
    /\ found = [files |-> "both", untouched |-> TRUE]
    /\ issued = NoLeaf

InitMgmt ==
    /\ InitLoaded
    /\ revCalled = FALSE
    /\ rRev = None
    /\ apiRules = rules
    /\ configFile = [state |-> "complete", rules |-> rules]
    /\ apiPc = "ready"
    /\ apiOp = NoOp
    /\ ops = 0
    /\ held = {rules}
    /\ rAck = "none"
    /\ seen = "none"

Init ==
    /\ rules \in ProxyRuleSets
    /\ program = "app"
    /\ InitMgmt
    /\ InitWorkers
    /\ rCalled = FALSE
    /\ rIn = None
    /\ rOut = None

Log(c, e) == events' = [events EXCEPT ![c] = Append(@, e)]
Goto(c, p) == pc' = [pc EXCEPT ![c] = p]
Has(c, e) == \E k \in 1..Len(events[c]) : events[c][k] = e
\* position of the first e in the worker's log, 0 when it is not there
Pos(c, e) == IF Has(c, e) THEN CHOOSE k \in 1..Len(events[c]) :
                                   /\ events[c][k] = e
                                   /\ \A j \in 1..(k - 1) : events[c][j] # e
             ELSE 0

\* x.close() on the object a local name is bound to: the descriptor is closed
\* when that object still owns it
Closed(sock, name) ==
    IF name # "unbound" /\ sock.owner = name /\ sock.fd = "open"
    THEN [sock EXCEPT !.fd = "closed"]
    ELSE sock

\* ------------------------------------------------------ handle_request
\* client_socket, client_address = server_socket.accept(); thread.start()
Accept(c) ==
    /\ pc[c] = "idle"
    /\ client' = [client EXCEPT ![c] = [fd |-> "open", owner |-> "raw"]]
    /\ Goto(c, "read_head")
    /\ UNCHANGED <<rules, sessVars, upstream, target_socket, fileVars, dialed,
                   events, idle, resolveVars, mgmtVars, byteVars>>

\* recv raises: handle_request's except, then its finally
ReadFails(c) ==
    /\ pc[c] = "read_head"
    /\ Log(c, "recv_error")
    /\ Goto(c, "request_finally")
    /\ UNCHANGED <<rules, sessVars, sockVars, fileVars, dialed, idle,
                   resolveVars, mgmtVars, byteVars>>

\* len(parts) < 2: return
ReadMalformed(c) ==
    /\ pc[c] = "read_head"
    /\ \E r \in Requests :
        /\ r.tokens < 2
        /\ request' = [request EXCEPT ![c] = r]
    /\ Log(c, "framing_error")
    /\ Goto(c, "request_finally")
    /\ UNCHANGED <<rules, mode, original_host, target_host, port, sockVars,
                   fileVars, dialed, idle, resolveVars, mgmtVars, byteVars>>

\* method.upper() == 'CONNECT': handle_connect, up to the call of do_mitm or
\* do_tunnel, or to the except of a target that does not parse
ReadConnect(c) ==
    /\ pc[c] = "read_head"
    /\ \E r \in Requests :
        /\ r.tokens >= 2
        /\ Upper(r.method) = "CONNECT"
        /\ request' = [request EXCEPT ![c] = r]
        /\ IF ConnectParses(r.url)
           THEN LET host == ConnectHost(r.url)
                    mapped_host == get_target_domain(rules, host)
                    m == ConnectMode(host, mapped_host)
                IN  /\ original_host' = [original_host EXCEPT ![c] = host]
                    /\ target_host' = [target_host EXCEPT ![c] = mapped_host]
                    /\ port' = [port EXCEPT ![c] = ConnectPort(r.url)]
                    /\ mode' = [mode EXCEPT ![c] = m]
                    /\ Log(c, "dispatch")
                    /\ Goto(c, IF m = "MITM" THEN "mitm_connect" ELSE "tunnel_connect")
           ELSE /\ Log(c, "bad_target")
                /\ Goto(c, "connect_except")
                /\ UNCHANGED <<mode, original_host, target_host, port>>
    /\ UNCHANGED <<rules, sockVars, fileVars, dialed, idle, resolveVars, mgmtVars, byteVars>>

\* any other method: lines 238-258, up to forward_http's connect
ReadPlain(c) ==
    /\ pc[c] = "read_head"
    /\ \E r \in Requests :
        /\ r.tokens >= 2
        /\ Upper(r.method) # "CONNECT"
        /\ request' = [request EXCEPT ![c] = r]
        /\ LET netloc == Netloc(FullUrl(r))
               final == MappedNetloc(rules, netloc)
           IN  IF netloc = None
               THEN /\ Log(c, "framing_error")
                    /\ Goto(c, "request_finally")
                    /\ UNCHANGED <<mode, original_host, target_host, port>>
               ELSE /\ mode' = [mode EXCEPT ![c] = "PlainForward"]
                    /\ original_host' = [original_host EXCEPT ![c] = netloc]
                    /\ target_host' = [target_host EXCEPT ![c] = Hostname(final)]
                    /\ IF PortOk(final)
                       THEN /\ port' = [port EXCEPT ![c] = PortOr80(final)]
                            /\ Goto(c, "fwd_connect")
                       ELSE /\ Goto(c, "fwd_except")
                            /\ UNCHANGED port
                    /\ Log(c, "dispatch")
    /\ UNCHANGED <<rules, sockVars, fileVars, dialed, idle, resolveVars, mgmtVars, byteVars>>

\* client_socket.sendall(b'HTTP/1.1 502 Bad Gateway\r\n\r\n') inside try/except:
\* it can succeed only on a descriptor client_socket still owns
Write502(c) ==
    \/ /\ client[c].fd = "open" /\ client[c].owner = "raw"
       /\ Log(c, "w502_ok")
    \/ Log(c, "w502_fail")

\* handle_connect's except                                 (lines 291-297)
ConnectExcept(c) ==
    /\ pc[c] = "connect_except"
    /\ Write502(c)
    /\ Goto(c, "request_finally")
    /\ UNCHANGED <<rules, sessVars, sockVars, fileVars, dialed, idle,
                   resolveVars, mgmtVars, byteVars>>

\* Mutant: the finally clause of one handler closes every client socket.
RequestFinallyClosesAll(c) ==
    /\ pc[c] = "request_finally"
    /\ client' = [d \in Conns |-> Closed(client[d], "raw")]
    /\ Log(c, "close_client")
    /\ Goto(c, "done")
    /\ UNCHANGED <<rules, sessVars, upstream, target_socket, fileVars, dialed,
                   idle, resolveVars, mgmtVars, byteVars>>

\* handle_request's finally: client_socket.close(), which closes the
\* descriptor unless wrap_socket has detached it             (lines 262-266)
RequestFinally(c) ==
    /\ pc[c] = "request_finally"
    /\ client' = [client EXCEPT ![c] = Closed(@, "raw")]
    /\ Log(c, "close_client")
    /\ Goto(c, "done")
    /\ UNCHANGED <<rules, sessVars, upstream, target_socket, fileVars, dialed,
                   idle, resolveVars, mgmtVars, byteVars>>


\* ---------------------------------------------------------- temp files
Exists(f) == \E e \in disk : e[1] = f
Writer(f) == (CHOOSE e \in disk : e[1] = f)[2]
\* Path.write_bytes: create or overwrite
Written(d, f, c) == {e \in d : e[1] # f} \cup {<<f, c>>}
\* if f and f.exists(): f.unlink()
Unlinked(d, f) == IF f = None THEN d ELSE {e \in d : e[1] # f}

\* ------------------------------------------------------------- do_mitm
\* The order of do_mitm's steps on success                  (lines 303-338)
MitmNext(p) ==
    CASE p = "mitm_connect"     -> "mitm_wrap_target"
      [] p = "mitm_wrap_target" -> "mitm_issue"
      [] p = "mitm_issue"       -> "mitm_write_cert"
      [] p = "mitm_write_cert"  -> "mitm_write_key"
      [] p = "mitm_write_key"   -> "mitm_load_chain"
      [] p = "mitm_load_chain"  -> "mitm_send200"
      [] p = "mitm_send200"     -> "mitm_wrap_client"
      [] p = "mitm_wrap_client" -> "relay_call"

\* Mutant: a failed leaf issuance is swallowed and the session goes on.
MitmRaiseIssueSwallowed(p) ==
    IF p = "mitm_issue" THEN "mitm_write_cert" ELSE "mitm_except"

\* Mutant: a failed write of the 200 line is swallowed and the session goes on.
MitmRaiseSend200Swallowed(p) ==
    IF p = "mitm_send200" THEN "mitm_wrap_client" ELSE "mitm_except"

\* Mutant: a failure skips the except clause and its 502.
MitmRaiseNo502(p) == "mitm_finally"

\* Mutant: a failed upstream connect is tried again.
MitmRaiseRetriesConnect(p) ==
    IF p = "mitm_connect" THEN "mitm_connect" ELSE "mitm_except"

\* Where a step that raised goes: the except clause           (line 340)
MitmRaise(p) == "mitm_except"

\* socket.socket(); settimeout(10); connect((target_host, port))
MitmConnect(c) ==
    /\ pc[c] = "mitm_connect"
    /\ target_socket' = [target_socket EXCEPT ![c] = "raw"]
    /\ upstream' = [upstream EXCEPT ![c] = [fd |-> "open", owner |-> "raw"]]
    /\ dialed' = [dialed EXCEPT ![c] =
                    Append(@, DialAddress(original_host[c], target_host[c], port[c]))]
    /\ \/ Log(c, "connect_ok") /\ Goto(c, MitmNext("mitm_connect"))
       \/ Log(c, "connect_fail") /\ Goto(c, MitmRaise("mitm_connect"))
    /\ UNCHANGED <<rules, sessVars, client, fileVars, idle, resolveVars, mgmtVars, byteVars>>

\* ssl_target = context.wrap_socket(target_socket, ...): the raw socket is
\* detached, the descriptor belongs to ssl_target; a failed handshake closes it
MitmWrapTarget(c) ==
    /\ pc[c] = "mitm_wrap_target"
    /\ \/ /\ upstream' = [upstream EXCEPT ![c] = [fd |-> "open", owner |-> "tls"]]
          /\ Log(c, "tls_up_ok")
          /\ Goto(c, MitmNext("mitm_wrap_target"))
       \/ /\ upstream' = [upstream EXCEPT ![c] = [fd |-> "closed", owner |-> "tls"]]
          /\ Log(c, "tls_up_fail")
          /\ Goto(c, MitmRaise("mitm_wrap_target"))
    /\ UNCHANGED <<rules, sessVars, client, target_socket, fileVars, dialed, idle,
                   resolveVars, mgmtVars, byteVars>>

\* cert_pem, key_pem = self.cert_manager.generate_cert_for_domain(original_host)
MitmIssue(c) ==
    /\ pc[c] = "mitm_issue"
    /\ \/ /\ leaf' = [leaf EXCEPT ![c] = IssueDomain(original_host[c], target_host[c])]
          /\ Log(c, "leaf_ok")
          /\ Goto(c, MitmNext("mitm_issue"))
       \/ /\ Log(c, "leaf_fail")
          /\ Goto(c, MitmRaise("mitm_issue"))
          /\ UNCHANGED leaf
    /\ UNCHANGED <<rules, sessVars, sockVars, disk, cert_file, key_file, loaded,
                   dialed, idle, resolveVars, mgmtVars, byteVars>>

\* cert_file = ...; key_file = ...; cert_file.write_bytes(cert_pem)
MitmWriteCert(c) ==
    /\ pc[c] = "mitm_write_cert"
    /\ cert_file' = [cert_file EXCEPT ![c] = TempFile(original_host[c], "crt")]
    /\ key_file' = [key_file EXCEPT ![c] = TempFile(original_host[c], "key")]
    /\ \/ /\ disk' = Written(disk, TempFile(original_host[c], "crt"), c)
          /\ Log(c, "cert_written")
          /\ Goto(c, MitmNext("mitm_write_cert"))
       \/ /\ Log(c, "write_fail")
          /\ Goto(c, MitmRaise("mitm_write_cert"))
          /\ UNCHANGED disk
    /\ UNCHANGED <<rules, sessVars, sockVars, leaf, loaded, dialed, idle,
                   resolveVars, mgmtVars, byteVars>>

\* key_file.write_bytes(key_pem)
MitmWriteKey(c) ==
    /\ pc[c] = "mitm_write_key"
    /\ \/ /\ disk' = Written(disk, key_file[c], c)
          /\ Log(c, "key_written")
          /\ Goto(c, MitmNext("mitm_write_key"))
       \/ /\ Log(c, "write_fail")
          /\ Goto(c, MitmRaise("mitm_write_key"))
          /\ UNCHANGED disk
    /\ UNCHANGED <<rules, sessVars, sockVars, cert_file, key_file, leaf, loaded,
                   dialed, idle, resolveVars, mgmtVars, byteVars>>

\* ssl_context.load_cert_chain(str(cert_file), str(key_file)): it reads what
\* is on disk now, and raises when a file is missing or the key is not the
\* certificate's
MitmLoadChain(c) ==
    /\ pc[c] = "mitm_load_chain"
    /\ IF /\ Exists(cert_file[c]) /\ Exists(key_file[c])
          /\ Writer(cert_file[c]) = Writer(key_file[c])
       THEN /\ loaded' = [loaded EXCEPT ![c] = Writer(cert_file[c])]
            /\ Log(c, "chain_loaded")
            /\ Goto(c, MitmNext("mitm_load_chain"))
       ELSE /\ Log(c, "load_fail")
            /\ Goto(c, MitmRaise("mitm_load_chain"))
            /\ UNCHANGED loaded
    /\ UNCHANGED <<rules, sessVars, sockVars, disk, cert_file, key_file, leaf,
                   dialed, idle, resolveVars, mgmtVars, byteVars>>

\* client_socket.sendall(b'HTTP/1.1 200 Connection Established\r\n\r\n'):
\* returns when every byte is written, raises otherwise
MitmSend200(c) ==
    /\ pc[c] = "mitm_send200"
    /\ \/ Log(c, "w200_ok") /\ Goto(c, MitmNext("mitm_send200"))
       \/ Log(c, "w200_fail") /\ Goto(c, MitmRaise("mitm_send200"))
    /\ UNCHANGED <<rules, sessVars, sockVars, fileVars, dialed, idle,
                   resolveVars, mgmtVars, byteVars>>

\* ssl_client = ssl_context.wrap_socket(client_socket, server_side=True)
MitmWrapClient(c) ==
    /\ pc[c] = "mitm_wrap_client"
    /\ \/ /\ client' = [client EXCEPT ![c] = [fd |-> "open", owner |-> "tls"]]
          /\ Log(c, "tls_client_ok")
          /\ Goto(c, MitmNext("mitm_wrap_client"))
       \/ /\ client' = [client EXCEPT ![c] = [fd |-> "closed", owner |-> "tls"]]
          /\ Log(c, "tls_client_fail")
          /\ Goto(c, MitmRaise("mitm_wrap_client"))
    /\ UNCHANGED <<rules, sessVars, upstream, target_socket, fileVars, dialed,
                   idle, resolveVars, mgmtVars, byteVars>>

\* except Exception: try: client_socket.sendall(502)          (lines 340-346)
MitmExcept(c) ==
    /\ pc[c] = "mitm_except"
    /\ Write502(c)
    /\ Goto(c, "mitm_finally")
    /\ UNCHANGED <<rules, sessVars, sockVars, fileVars, dialed, idle,
                   resolveVars, mgmtVars, byteVars>>

\* finally: target_socket.close(); unlink cert_file and key_file when they
\* exist                                                      (lines 347-359)
MitmFinally(c) ==
    /\ pc[c] = "mitm_finally"
    /\ upstream' = [upstream EXCEPT ![c] = Closed(@, target_socket[c])]
    /\ disk' = Unlinked(Unlinked(disk, cert_file[c]), key_file[c])
    /\ Log(c, "cleanup")
    /\ Goto(c, "request_finally")
    /\ UNCHANGED <<rules, sessVars, client, target_socket, cert_file, key_file,
                   leaf, loaded, dialed, idle, resolveVars, mgmtVars, byteVars>>


\* ----------------------------------------------------------- do_tunnel
\* Mutant: after the upstream connect the Tunnel issues a leaf like do_mitm.
TunnelNextForges(p, prt) ==
    CASE p = "tunnel_connect" -> "mitm_issue"
      [] p = "tunnel_wrap"    -> "tunnel_send200"
      [] p = "tunnel_send200" -> "relay_call"

\* The order of do_tunnel's steps on success                (lines 364-378)
TunnelNext(p, prt) ==
    CASE p = "tunnel_connect" -> IF prt = TLS_PORT THEN "tunnel_wrap" ELSE "tunnel_send200"
      [] p = "tunnel_wrap"    -> "tunnel_send200"
      [] p = "tunnel_send200" -> "relay_call"

\* Mutant: a failed connect or handshake is swallowed and 200 is written.
TunnelRaiseSwallowed(p) ==
    IF p = "tunnel_send200" THEN "tunnel_except" ELSE "tunnel_send200"

\* Where a step that raised goes: the except clause           (line 380)
TunnelRaise(p) == "tunnel_except"

\* socket.socket(); settimeout(10); connect((host, port))
TunnelConnect(c) ==
    /\ pc[c] = "tunnel_connect"
    /\ target_socket' = [target_socket EXCEPT ![c] = "raw"]
    /\ upstream' = [upstream EXCEPT ![c] = [fd |-> "open", owner |-> "raw"]]
    /\ dialed' = [dialed EXCEPT ![c] = Append(@, <<target_host[c], port[c]>>)]
    /\ \/ Log(c, "connect_ok") /\ Goto(c, TunnelNext("tunnel_connect", port[c]))
       \/ Log(c, "connect_fail") /\ Goto(c, TunnelRaise("tunnel_connect"))
    /\ UNCHANGED <<rules, sessVars, client, fileVars, idle, resolveVars, mgmtVars, byteVars>>

\* if port == 443: target_socket = context.wrap_socket(target_socket, ...):
\* the name is rebound to the wrapper only when the call returns
TunnelWrap(c) ==
    /\ pc[c] = "tunnel_wrap"
    /\ \/ /\ upstream' = [upstream EXCEPT ![c] = [fd |-> "open", owner |-> "tls"]]
          /\ target_socket' = [target_socket EXCEPT ![c] = "tls"]
          /\ Log(c, "tls_up_ok")
          /\ Goto(c, TunnelNext("tunnel_wrap", port[c]))
       \/ /\ upstream' = [upstream EXCEPT ![c] = [fd |-> "closed", owner |-> "tls"]]
          /\ Log(c, "tls_up_fail")
          /\ Goto(c, TunnelRaise("tunnel_wrap"))
          /\ UNCHANGED target_socket
    /\ UNCHANGED <<rules, sessVars, client, fileVars, dialed, idle,
                   resolveVars, mgmtVars, byteVars>>

\* client_socket.sendall(b'HTTP/1.1 200 Connection Established\r\n\r\n')
TunnelSend200(c) ==
    /\ pc[c] = "tunnel_send200"
    /\ \/ Log(c, "w200_ok") /\ Goto(c, TunnelNext("tunnel_send200", port[c]))
       \/ Log(c, "w200_fail") /\ Goto(c, TunnelRaise("tunnel_send200"))
    /\ UNCHANGED <<rules, sessVars, sockVars, fileVars, dialed, idle,
                   resolveVars, mgmtVars, byteVars>>

\* except Exception: try: client_socket.sendall(502)          (lines 380-386)
TunnelExcept(c) ==
    /\ pc[c] = "tunnel_except"
    /\ Write502(c)
    /\ Goto(c, "tunnel_finally")
    /\ UNCHANGED <<rules, sessVars, sockVars, fileVars, dialed, idle,
                   resolveVars, mgmtVars, byteVars>>

\* finally: target_socket.close()                             (lines 387-391)
TunnelFinally(c) ==
    /\ pc[c] = "tunnel_finally"
    /\ upstream' = [upstream EXCEPT ![c] = Closed(@, target_socket[c])]
    /\ Log(c, "cleanup")
    /\ Goto(c, "request_finally")
    /\ UNCHANGED <<rules, sessVars, client, target_socket, fileVars, dialed, idle,
                   resolveVars, mgmtVars, byteVars>>

\* -------------------------------------------------------- forward_http
\* socket.socket(); settimeout(10); connect((parsed.hostname, parsed.port or 80))
FwdConnect(c) ==
    /\ pc[c] = "fwd_connect"
    /\ target_socket' = [target_socket EXCEPT ![c] = "raw"]
    /\ upstream' = [upstream EXCEPT ![c] = [fd |-> "open", owner |-> "raw"]]
    /\ dialed' = [dialed EXCEPT ![c] = Append(@, <<target_host[c], port[c]>>)]
    /\ \/ Log(c, "connect_ok") /\ Goto(c, "fwd_send")
       \/ Log(c, "connect_fail") /\ Goto(c, "fwd_except")
    /\ UNCHANGED <<rules, sessVars, client, fileVars, idle, resolveVars, mgmtVars, byteVars>>

\* parsed.path of the url: what follows the netloc
UrlPath(url) ==
    LET i == FindFirst(url, SCHEME_SEP)
        rest == SubSeq(url, i + 3, Len(url))
        j == FindFirst(rest, <<"/">>)
    IN  IF j = 0 THEN <<>> ELSE SubSeq(rest, j, Len(rest))

\* the url handle_request hands to forward_http: parsed._replace(netloc=
\* mapped_domain, scheme='http').geturl() when the mapping changed the netloc
\*                                                          (lines 252-258)
ForwardUrl(ruleset, r) ==
    LET url == FullUrl(r)
        netloc == Netloc(url)
        mapped_domain == get_target_domain(ruleset, netloc)
    IN  IF mapped_domain # netloc
        THEN HTTP_PREFIX \o mapped_domain \o UrlPath(url)
        ELSE url

\* Mutant: the head is rebuilt around the url that was dialed.
OriginalRequestRewritten(request_data, url) == [request_data EXCEPT !.url = url]

\* forward_http's original_request: handle_request passes request_data, the
\* bytes it read, whatever the url has become            (lines 258, 400)
OriginalRequest(request_data, url) == request_data

\* target_socket.sendall(original_request)
FwdSend(c) ==
    /\ pc[c] = "fwd_send"
    /\ \/ /\ Log(c, "head_sent")
          /\ headSent' = [headSent EXCEPT ![c] =
                 OriginalRequest(request[c], ForwardUrl(rules, request[c]))]
          /\ Goto(c, "relay_call")
       \/ /\ Log(c, "send_fail")
          /\ Goto(c, "fwd_except")
          /\ UNCHANGED headSent
    /\ UNCHANGED <<rules, sessVars, sockVars, fileVars, dialed, idle,
                   resolveVars, mgmtVars, ioVars, tlsVars>>

\* except Exception: try: client_socket.sendall(502)          (lines 403-409)
FwdExcept(c) ==
    /\ pc[c] = "fwd_except"
    /\ Write502(c)
    /\ Goto(c, "fwd_finally")
    /\ UNCHANGED <<rules, sessVars, sockVars, fileVars, dialed, idle,
                   resolveVars, mgmtVars, byteVars>>

\* finally: target_socket.close()                             (lines 410-414)
FwdFinally(c) ==
    /\ pc[c] = "fwd_finally"
    /\ upstream' = [upstream EXCEPT ![c] = Closed(@, target_socket[c])]
    /\ Log(c, "cleanup")
    /\ Goto(c, "request_finally")
    /\ UNCHANGED <<rules, sessVars, client, target_socket, fileVars, dialed, idle,
                   resolveVars, mgmtVars, byteVars>>

\* ---------------------------------------------------------- relay_data
\* The statement after the call of relay_data: the caller's finally
AfterRelay(m) ==
    CASE m = "MITM"         -> "mitm_finally"
      [] m = "Tunnel"       -> "tunnel_finally"
      [] m = "PlainForward" -> "fwd_finally"

\* self.relay_data(...) is called: sockets = [...]; timeout = 10
RelayEnter(c) ==
    /\ pc[c] = "relay_call"
    /\ idle' = [idle EXCEPT ![c] = 0]
    /\ Log(c, "relay_start")
    /\ Goto(c, "relay")
    /\ UNCHANGED <<rules, sessVars, sockVars, fileVars, dialed, resolveVars, mgmtVars, byteVars>>

\* What the loop does when select() returns no readable socket after the
\* timeout: 'continue'                                      (lines 428-429)
OnSelectTimeout == "relay"

\* select() returns after 10 s with nothing readable and nothing exceptional
RelaySelectTimeout(c) ==
    /\ pc[c] = "relay"
    /\ idle[c] < MaxIdle
    /\ idle' = [idle EXCEPT ![c] = @ + 1]
    /\ Goto(c, OnSelectTimeout)
    /\ UNCHANGED <<rules, sessVars, sockVars, fileVars, dialed, events,
                   resolveVars, mgmtVars, byteVars>>

\* a readable side: data = sock.recv(4096), non-empty, sendall to the other side
RelayCopy(c) ==
    /\ pc[c] = "relay"
    /\ idle' = [idle EXCEPT ![c] = 0]
    /\ UNCHANGED <<rules, pc, sessVars, sockVars, fileVars, dialed, events,
                   resolveVars, mgmtVars, byteVars>>

\* the loop ends: 'exceptional' is not empty (break), recv returns b'' (return),
\* recv or sendall raises (return), select raises (the outer except)
RelayEnd(c) ==
    /\ pc[c] = "relay"
    /\ Log(c, "relay_end")
    /\ Goto(c, AfterRelay(mode[c]))
    /\ UNCHANGED <<rules, sessVars, sockVars, fileVars, dialed, idle,
                   resolveVars, mgmtVars, byteVars>>

\* ------------------------------------------------------ object lifetime
\* do_mitm never calls close() on ssl_client or ssl_target.  Their
\* descriptors are released only when the interpreter finalizes the
\* unreferenced objects, at a time the language does not fix: any time after
\* do_mitm has returned, or never.
Leaked(sock) == sock.owner = "tls" /\ sock.fd = "open"

Finalize(c) ==
    /\ pc[c] \in {"request_finally", "done"}
    /\ Leaked(client[c]) \/ Leaked(upstream[c])
    /\ client' = [client EXCEPT ![c] = Closed(@, "tls")]
    /\ upstream' = [upstream EXCEPT ![c] = Closed(@, "tls")]
    /\ UNCHANGED <<rules, pc, sessVars, target_socket, fileVars, dialed, events,
                   idle, resolveVars, mgmtVars, byteVars>>

\* ------------------------------------------------------- specification
Next ==
    \E c \in Conns :
        \/ Accept(c)
        \/ ReadFails(c)
        \/ ReadMalformed(c)
        \/ ReadConnect(c)
        \/ ReadPlain(c)
        \/ ConnectExcept(c)
        \/ RequestFinally(c)
        \/ MitmConnect(c)
        \/ MitmWrapTarget(c)
        \/ MitmIssue(c)
        \/ MitmWriteCert(c)
        \/ MitmWriteKey(c)
        \/ MitmLoadChain(c)
        \/ MitmSend200(c)
        \/ MitmWrapClient(c)
        \/ MitmExcept(c)
        \/ MitmFinally(c)
        \/ TunnelConnect(c)
        \/ TunnelWrap(c)
        \/ TunnelSend200(c)
        \/ TunnelExcept(c)
        \/ TunnelFinally(c)
        \/ FwdConnect(c)
        \/ FwdSend(c)
        \/ FwdExcept(c)
        \/ FwdFinally(c)
        \/ RelayEnter(c)
        \/ RelaySelectTimeout(c)
        \/ RelayCopy(c)
        \/ RelayEnd(c)
        \/ Finalize(c)

Spec == Init /\ [][Next]_vars


\* ------------------------------------------ relay_data, byte by byte
\* One connection, with the loop of relay_data taken statement by statement
\* and the bytes of both legs kept: each peer sends the bytes 1, 2, ... of
\* its own stream.
RelayConns == {"c1"}

\* sock.recv(4096)
BUFSIZE == 4096

RelayPcs == {"relay", "relay_recv", "relay_send"}

Min(a, b) == IF a < b THEN a ELSE b

\* sockets = [client_socket, target_socket]: select returns its readable
\* members in this order; a socket is readable when bytes or the end of the
\* stream are waiting
Readable(c) ==
    SelectSeq(<<"client", "target">>, LAMBDA s : inbox[c][s] # <<>> \/ eof[c][s])

\* relay_data returns to the caller's finally
RelayReturn(c, why) ==
    /\ events' = [events EXCEPT ![c] = @ \o <<why, "relay_end">>]
    /\ Goto(c, AfterRelay(mode[c]))

\* a peer's byte arrives at its socket
PeerSend(c, side) ==
    /\ pc[c] \in RelayPcs
    /\ ~eof[c][side]
    /\ Len(got[c][side]) + Len(inbox[c][side]) < MaxBytes
    /\ inbox' = [inbox EXCEPT ![c][side] =
          Append(@, [from |-> side, n |-> Len(got[c][side]) + Len(@) + 1])]
    /\ UNCHANGED <<rules, pc, sessVars, sockVars, fileVars, dialed, events, idle,
                   resolveVars, mgmtVars, tlsVars, headSent, eof, got, put, ready, data>>

\* a peer closes its sending direction
PeerClose(c, side) ==
    /\ pc[c] \in RelayPcs
    /\ ~eof[c][side]
    /\ eof' = [eof EXCEPT ![c][side] = TRUE]
    /\ UNCHANGED <<rules, pc, sessVars, sockVars, fileVars, dialed, events, idle,
                   resolveVars, mgmtVars, tlsVars, headSent, inbox, got, put, ready, data>>

\* readable, _, exceptional = select.select(sockets, [], sockets, timeout);
\* if not readable: continue                                (lines 424-429)
RelaySelect(c) ==
    /\ pc[c] = "relay"
    /\ IF Readable(c) # <<>>
       THEN /\ ready' = [ready EXCEPT ![c] = Readable(c)]
            /\ Goto(c, "relay_recv")
            /\ UNCHANGED idle
       ELSE /\ idle[c] < MaxIdle
            /\ idle' = [idle EXCEPT ![c] = @ + 1]
            /\ Goto(c, OnSelectTimeout)
            /\ UNCHANGED ready
    /\ UNCHANGED <<rules, sessVars, sockVars, fileVars, dialed, events,
                   resolveVars, mgmtVars, tlsVars, headSent, inbox, eof, got, put, data>>

\* if exceptional: break; select raises: the outer except    (lines 425-426, 442)
RelayBreak(c) ==
    /\ pc[c] = "relay"
    /\ RelayReturn(c, "select_break")
    /\ UNCHANGED <<rules, sessVars, sockVars, fileVars, dialed, idle,
                   resolveVars, mgmtVars, byteVars>>

\* data = sock.recv(4096); if not data: return; except: return  (lines 431-435, 440)
RelayRecv(c) ==
    /\ pc[c] = "relay_recv"
    /\ LET sock == Head(ready[c]) IN
       \/ /\ RelayReturn(c, "recv_fail")
          /\ UNCHANGED <<inbox, got, data, idle>>
       \/ /\ inbox[c][sock] = <<>>
          /\ RelayReturn(c, "eof")
          /\ UNCHANGED <<inbox, got, data, idle>>
       \/ \E k \in 1..Min(BUFSIZE, Len(inbox[c][sock])) :
            /\ data' = [data EXCEPT ![c] =
                  [from |-> sock, bytes |-> SubSeq(inbox[c][sock], 1, k)]]
            /\ inbox' = [inbox EXCEPT ![c][sock] = SubSeq(@, k + 1, Len(@))]
            /\ got' = [got EXCEPT ![c][sock] = @ \o SubSeq(inbox[c][sock], 1, k)]
            /\ idle' = [idle EXCEPT ![c] = 0]
            /\ Goto(c, "relay_send")
            /\ UNCHANGED events
    /\ UNCHANGED <<rules, sessVars, sockVars, fileVars, dialed, resolveVars, mgmtVars,
                   tlsVars, headSent, eof, put, ready>>

\* if sock is client_socket: target_socket.sendall(data)
\* else: client_socket.sendall(data); except: return       (lines 436-441)
RelaySend(c) ==
    /\ pc[c] = "relay_send"
    /\ LET to == Other(data[c].from) IN
       \/ /\ put' = [put EXCEPT ![c][to] = @ \o data[c].bytes]
          /\ ready' = [ready EXCEPT ![c] = Tail(@)]
          /\ Goto(c, IF Tail(ready[c]) = <<>> THEN "relay" ELSE "relay_recv")
          /\ UNCHANGED events
       \/ \E j \in 0..(Len(data[c].bytes) - 1) :
            /\ put' = [put EXCEPT ![c][to] = @ \o SubSeq(data[c].bytes, 1, j)]
            /\ RelayReturn(c, "relay_send_fail")
            /\ UNCHANGED ready
    /\ data' = [data EXCEPT ![c] = NoData]
    /\ UNCHANGED <<rules, sessVars, sockVars, fileVars, dialed, idle, resolveVars, mgmtVars,
                   tlsVars, headSent, inbox, eof, got>>

\* What travels on a leg's connection when 'bytes' pass the socket object of
\* that leg: the bytes themselves on a plain socket; on a socket that
\* wrap_socket has wrapped, records of the proxy's own TLS session
\*                                                 (lines 310-313, 334, 368-372)
TLSRecord(b) == [from |-> "tls", n |-> b.n]

OnWire(sock, bytes) ==
    IF sock.owner = "tls"
    THEN [k \in 1..Len(bytes) |-> TLSRecord(bytes[k])]
    ELSE bytes

NextRelay ==
    \E c \in RelayConns :
        \/ Accept(c)
        \/ ReadFails(c)
        \/ ReadMalformed(c)
        \/ ReadConnect(c)
        \/ ReadPlain(c)
        \/ ConnectExcept(c)
        \/ RequestFinally(c)
        \/ MitmConnect(c)
        \/ MitmWrapTarget(c)
        \/ MitmIssue(c)
        \/ MitmWriteCert(c)
        \/ MitmWriteKey(c)
        \/ MitmLoadChain(c)
        \/ MitmSend200(c)
        \/ MitmWrapClient(c)
        \/ MitmExcept(c)
        \/ MitmFinally(c)
        \/ TunnelConnect(c)
        \/ TunnelWrap(c)
        \/ TunnelSend200(c)
        \/ TunnelExcept(c)
        \/ TunnelFinally(c)
        \/ FwdConnect(c)
        \/ FwdSend(c)
        \/ FwdExcept(c)
        \/ FwdFinally(c)
        \/ RelayEnter(c)
        \/ \E side \in Sides : PeerSend(c, side)
        \/ \E side \in Sides : PeerClose(c, side)
        \/ RelaySelect(c)
        \/ RelayBreak(c)
        \/ RelayRecv(c)
        \/ RelaySend(c)
        \/ Finalize(c)

SpecRelay == Init /\ [][NextRelay]_vars

\* ------------------------------------------------- what the code bounds
\* The steps of a worker that the code makes sure to take once they can be
\* taken.  The upstream socket has settimeout(10) (lines 306, 365, 398), so
\* its connect, its handshake and the writes to it end; select() has a
\* timeout of 10 s (lines 420-423); issuing, writing, loading, the except and
\* finally clauses and the short status lines wait for nobody.  The socket
\* returned by accept() is never given a timeout: its recv() at line 210 and
\* its server-side handshake at line 334 wait for the client as long as the
\* client stays silent, and are not in this list.
Bounded(c) ==
    \/ ConnectExcept(c) \/ RequestFinally(c)
    \/ MitmConnect(c) \/ MitmWrapTarget(c) \/ MitmIssue(c) \/ MitmWriteCert(c)
    \/ MitmWriteKey(c) \/ MitmLoadChain(c) \/ MitmSend200(c)
    \/ MitmExcept(c) \/ MitmFinally(c)
    \/ TunnelConnect(c) \/ TunnelWrap(c) \/ TunnelSend200(c)
    \/ TunnelExcept(c) \/ TunnelFinally(c)
    \/ FwdConnect(c) \/ FwdSend(c) \/ FwdExcept(c) \/ FwdFinally(c)
    \/ RelayEnter(c) \/ RelaySelect(c) \/ RelayRecv(c) \/ RelaySend(c)

SpecLive == SpecRelay /\ \A c \in RelayConns : WF_vars(Bounded(c))


\* ------------------------------------------ relay_data, record by record
\* The same loop with the lengths of what arrives instead of the bytes: a
\* peer's data arrives at the descriptor in pieces, TLS records on a wrapped
\* leg and segments on a plain one, and a record of TLS carries up to 16384
\* bytes of plaintext, more than the 4096 that recv() is asked for.
RecordSizes == {1, BUFSIZE + 1}

\* select.select(sockets, [], sockets, timeout) asks the kernel about the
\* descriptors: a socket is readable when a piece or the end of the stream
\* waits at its descriptor; what an SSLSocket has already decrypted is not
\* at the descriptor any more                                    (line 424)
Selectable(c, s) == wire[c][s] # <<>> \/ eof[c][s]

TlsReadable(c) == SelectSeq(<<"client", "target">>, LAMBDA s : Selectable(c, s))

\* a peer's record or segment arrives at its descriptor
TlsPeerSend(c, side) ==
    /\ pc[c] \in RelayPcs
    /\ ~eof[c][side]
    /\ Len(delivered[c][side]) < MaxRecords
    /\ \E n \in RecordSizes :
        /\ wire' = [wire EXCEPT ![c][side] = Append(@, n)]
        /\ delivered' = [delivered EXCEPT ![c][side] = Append(@, n)]
    /\ UNCHANGED <<rules, pc, sessVars, sockVars, fileVars, dialed, events, idle,
                   resolveVars, mgmtVars, headSent, ioVars, buffered, written, chunk>>

\* a peer closes its sending direction
TlsPeerClose(c, side) ==
    /\ pc[c] \in RelayPcs
    /\ ~eof[c][side]
    /\ eof' = [eof EXCEPT ![c][side] = TRUE]
    /\ UNCHANGED <<rules, pc, sessVars, sockVars, fileVars, dialed, events, idle,
                   resolveVars, mgmtVars, headSent, tlsVars, inbox, got, put, ready, data>>

\* readable, _, exceptional = select.select(sockets, [], sockets, timeout);
\* if not readable: continue                                (lines 424-429)
TlsSelect(c) ==
    /\ pc[c] = "relay"
    /\ IF TlsReadable(c) # <<>>
       THEN /\ ready' = [ready EXCEPT ![c] = TlsReadable(c)]
            /\ Goto(c, "relay_recv")
            /\ UNCHANGED idle
       ELSE /\ idle[c] < MaxIdle
            /\ idle' = [idle EXCEPT ![c] = @ + 1]
            /\ Goto(c, OnSelectTimeout)
            /\ UNCHANGED ready
    /\ UNCHANGED <<rules, sessVars, sockVars, fileVars, dialed, events,
                   resolveVars, mgmtVars, headSent, tlsVars, inbox, eof, got, put, data>>

\* data = sock.recv(4096); if not data: return; except: return  (lines 431-435, 440)
\* On a plain socket recv takes up to 4096 bytes of the piece at the
\* descriptor and leaves the rest there.  SSLSocket.recv hands out what the
\* object already holds; when it holds nothing it takes one whole record off
\* the descriptor, returns up to 4096 bytes of its plaintext and keeps the
\* rest inside the object.
TlsRecv(c) ==
    /\ pc[c] = "relay_recv"
    /\ LET sock == Head(ready[c])
           \* the socket object of the leg             (lines 334, 312, 371)
           leg == IF sock = "client" THEN client[c] ELSE upstream[c]
           tls == leg.owner = "tls"
           held_ == buffered[c][sock]
           avail == IF tls /\ held_ > 0 THEN held_
                    ELSE IF wire[c][sock] # <<>> THEN Head(wire[c][sock]) ELSE 0
           n == Min(BUFSIZE, avail)
       IN
       \/ /\ RelayReturn(c, "recv_fail")
          /\ UNCHANGED <<wire, buffered, chunk, idle>>
       \/ /\ avail = 0
          /\ RelayReturn(c, "eof")
          /\ UNCHANGED <<wire, buffered, chunk, idle>>
       \/ /\ avail > 0
          /\ chunk' = [chunk EXCEPT ![c] = [from |-> sock, len |-> n]]
          /\ IF tls /\ held_ > 0
             THEN /\ buffered' = [buffered EXCEPT ![c][sock] = @ - n]
                  /\ UNCHANGED wire
             ELSE IF tls
             THEN /\ buffered' = [buffered EXCEPT ![c][sock] = avail - n]
                  /\ wire' = [wire EXCEPT ![c][sock] = Tail(@)]
             ELSE /\ wire' = [wire EXCEPT ![c][sock] =
                        IF avail > n THEN <<avail - n>> \o Tail(@) ELSE Tail(@)]
                  /\ UNCHANGED buffered
          /\ idle' = [idle EXCEPT ![c] = 0]
          /\ Goto(c, "relay_send")
          /\ UNCHANGED events
    /\ UNCHANGED <<rules, sessVars, sockVars, fileVars, dialed, resolveVars, mgmtVars,
                   headSent, ioVars, delivered, written>>

\* if sock is client_socket: target_socket.sendall(data)
\* else: client_socket.sendall(data); except: return       (lines 436-441)
TlsSend(c) ==
    /\ pc[c] = "relay_send"
    /\ LET to == Other(chunk[c].from) IN
       \/ /\ written' = [written EXCEPT ![c][to] = @ + chunk[c].len]
          /\ ready' = [ready EXCEPT ![c] = Tail(@)]
          /\ Goto(c, IF Tail(ready[c]) = <<>> THEN "relay" ELSE "relay_recv")
          /\ UNCHANGED events
       \/ /\ RelayReturn(c, "relay_send_fail")
          /\ UNCHANGED <<written, ready>>
    /\ chunk' = [chunk EXCEPT ![c] = NoChunk]
    /\ UNCHANGED <<rules, sessVars, sockVars, fileVars, dialed, idle, resolveVars, mgmtVars,
                   headSent, inbox, eof, got, put, data, wire, buffered, delivered>>

NextTLS ==
    \E c \in RelayConns :
        \/ Accept(c)
        \/ ReadFails(c)
        \/ ReadMalformed(c)
        \/ ReadConnect(c)
        \/ ReadPlain(c)
        \/ ConnectExcept(c)
        \/ RequestFinally(c)
        \/ MitmConnect(c)
        \/ MitmWrapTarget(c)
        \/ MitmIssue(c)
        \/ MitmWriteCert(c)
        \/ MitmWriteKey(c)
        \/ MitmLoadChain(c)
        \/ MitmSend200(c)
        \/ MitmWrapClient(c)
        \/ MitmExcept(c)
        \/ MitmFinally(c)
        \/ TunnelConnect(c)
        \/ TunnelWrap(c)
        \/ TunnelSend200(c)
        \/ TunnelExcept(c)
        \/ TunnelFinally(c)
        \/ FwdConnect(c)
        \/ FwdSend(c)
        \/ FwdExcept(c)
        \/ FwdFinally(c)
        \/ RelayEnter(c)
        \/ \E side \in Sides : TlsPeerSend(c, side)
        \/ \E side \in Sides : TlsPeerClose(c, side)
        \/ TlsSelect(c)
        \/ RelayBreak(c)
        \/ TlsRecv(c)
        \/ TlsSend(c)
        \/ Finalize(c)

SpecTLS == Init /\ [][NextTLS]_vars

\* ------------------------------------------ the resolver on its own
\* The characters of the hosts handed to get_target_domain.
Alphabet == {"a", "b", ".", ":"}

HostInputs == UNION {[1..n -> Alphabet] : n \in 0..MaxLen}

\* The same hosts behind a scheme prefix: s://h and s://h:p.
SCHEME_S == <<"s", ":", "/", "/">>
SchemedInputs == {SCHEME_S \o h : h \in UNION {[1..n -> Alphabet] : n \in 1..MaxLen}}

S_A == <<"s", ":", "/", "/", "a">>
S_T == <<"s", ":", "/", "/", "t">>

\* The keys and values of the rule sets: bare names that are suffixes of one
\* another, a key with a port, and a key and a value written with a scheme.
RuleKeys == {<<"a">>, <<".", "a">>, <<"b", "a">>, <<"a", ":", "b">>, S_A}
RuleVals == {<<"t">>, <<"a">>, S_T}

\* dicts: no key twice
RuleSetsOfLen(n) ==
    {rs \in [1..n -> RuleKeys \X RuleVals] :
        \A i, j \in 1..n : i # j => rs[i][1] # rs[j][1]}

ResolveRuleSets == UNION {RuleSetsOfLen(n) : n \in 0..MaxRules}

InitResolve ==
    /\ rules \in ResolveRuleSets
    /\ program = "app"
    /\ InitMgmt
    /\ InitWorkers
    /\ rCalled = FALSE
    /\ rIn = None
    /\ rOut = None

\* target = self.get_target_domain(h)
ResolveCall ==
    /\ ~rCalled
    /\ \E h \in HostInputs \cup SchemedInputs :
        /\ rIn' = h
        /\ rOut' = get_target_domain(rules, h)
    /\ rCalled' = TRUE
    /\ UNCHANGED <<rules, pc, sessVars, sockVars, fileVars, dialed, events, idle, byteVars,
                   mgmtVars>>

\* a dict as the sequence of its items, in insertion order
DictHas(d, k) == \E i \in 1..Len(d) : d[i][1] = k
DictGet(d, k) == IF DictHas(d, k) THEN d[CHOOSE i \in 1..Len(d) : d[i][1] = k][2]
                 ELSE None
\* d[k] = v
DictSet(d, k, v) ==
    IF DictHas(d, k) THEN [i \in 1..Len(d) |-> IF d[i][1] = k THEN <<k, v>> ELSE d[i]]
    ELSE Append(d, <<k, v>>)
\* del d[k]
DictDel(d, k) == SelectSeq(d, LAMBDA e : e[1] # k)

\* ProxyServer.get_target_domain: rules.get(source_domain, None)
ProxyServer_get_target_domain(ruleset, source_domain) == DictGet(ruleset, source_domain)

\* the reverse proxy serves a request for the same host: proxy() takes
\* request.host.split(':')[0] and asks ProxyServer.get_target_domain
\*                                              (proxy_server.py 221-222, 75-78)
ReverseLookup(h) == ProxyServer_get_target_domain(rules, Split(h, COLON)[1])

NextResolve == ResolveCall

SpecResolve == InitResolve /\ [][NextResolve]_vars

\* ------------------------------------------- the two resolvers side by side
\* the MITM proxy and the reverse proxy, started with the same rule set, are
\* each asked for the same host
BothResolve ==
    /\ ~rCalled
    /\ \E h \in HostInputs :
        /\ rIn' = h
        /\ rOut' = get_target_domain(rules, h)
        /\ rRev' = ReverseLookup(h)
    /\ rCalled' = TRUE
    /\ revCalled' = TRUE
    /\ UNCHANGED <<rules, workerVars, adminVars, caVars>>

NextAgree == BothResolve

SpecAgree == InitResolve /\ [][NextAgree]_vars

\* ------------------------------------------- the management interface
\* app.py (AppAPI beside a MITMProxyServer) and proxy_server.py (the routes
\* of ProxyServer) keep the rules in a dict and in config.json with the same
\* code: validate, mutate the dict, rewrite the file.
MaxOps == 1
Programs == {"app", "reverse"}
AdminSources == {None, M_X, U_X}
AdminTargets == {None, T_X}
AdminHosts == {M_X, U_X}

\* what a request for host resolves to in the running program
Lookup(prog, ruleset, host) ==
    IF prog = "app" THEN get_target_domain(ruleset, host)
    ELSE ProxyServer_get_target_domain(ruleset, host)

\* Mutant: the running proxy sees the new entry before its value is whole.
LiveHalfStored(prog, proxyRules, newRules) ==
    IF newRules # <<>>
    THEN Append(proxyRules, <<Last(newRules)[1], <<Last(newRules)[2][1]>> >>)
    ELSE proxyRules

\* The rules the running proxy resolves with once the management interface
\* holds newRules.  ProxyServer's routes mutate self.config, the dict its
\* proxy() reads.  In app.py the AppAPI is handed the dict returned by
\* MITMProxyServer().load_config() (line 207) while the server that runs was
\* constructed separately (lines 211-214) and loaded its own dict, which
\* nothing updates afterwards.
Live(prog, proxyRules, newRules) ==
    IF prog = "reverse" THEN newRules ELSE proxyRules

\* the management interface holds newRules from now on
Hold(newRules) ==
    /\ apiRules' = newRules
    /\ rules' = Live(program, rules, newRules)
    /\ held' = held \cup {newRules}


\* add_rule(source, target)     (app.py 152-163, proxy_server.py 177-189)
AddRule(source, target) ==
    /\ apiPc = "ready" /\ ops < MaxOps /\ ~rCalled
    /\ ops' = ops + 1
    /\ IF source = None \/ target = None
       THEN /\ apiOp' = [op |-> "add", source |-> source, target |-> target,
                         result |-> "error", config |-> apiRules,
                         before |-> apiRules, fileBefore |-> configFile]
            /\ UNCHANGED <<rules, apiRules, held, apiPc>>
       ELSE /\ Hold(DictSet(apiRules, source, target))
            /\ apiOp' = [op |-> "add", source |-> source, target |-> target,
                         result |-> "pending",
                         config |-> DictSet(apiRules, source, target),
                         before |-> apiRules, fileBefore |-> configFile]
            /\ apiPc' = "save_open"
    /\ UNCHANGED <<workerVars, caVars, revVars, resolveVars, program, configFile, rAck, seen>>

\* delete_rule(source)          (app.py 165-173, proxy_server.py 191-197)
DeleteRule(source) ==
    /\ apiPc = "ready" /\ ops < MaxOps /\ ~rCalled
    /\ ops' = ops + 1
    /\ IF DictHas(apiRules, source)
       THEN /\ Hold(DictDel(apiRules, source))
            /\ apiOp' = [op |-> "delete", source |-> source, target |-> None,
                         result |-> "pending", config |-> DictDel(apiRules, source),
                         before |-> apiRules, fileBefore |-> configFile]
            /\ apiPc' = "save_open"
       ELSE /\ apiOp' = [op |-> "delete", source |-> source, target |-> None,
                         result |-> "error", config |-> apiRules,
                         before |-> apiRules, fileBefore |-> configFile]
            /\ UNCHANGED <<rules, apiRules, held, apiPc>>
    /\ UNCHANGED <<workerVars, caVars, revVars, resolveVars, program, configFile, rAck, seen>>

\* _save_config: open(self.config_path, 'w') creates or truncates the file,
\* or raises and the call returns False
SaveOpen ==
    /\ apiPc = "save_open"
    /\ \/ /\ configFile' = [state |-> "empty", rules |-> <<>>]
          /\ apiPc' = "save_dump"
          /\ UNCHANGED apiOp
       \/ /\ apiOp' = [apiOp EXCEPT !.result = "error"]
          /\ apiPc' = "ready"
          /\ UNCHANGED configFile
    /\ UNCHANGED <<rules, workerVars, caVars, revVars,
                   resolveVars, program, apiRules, ops, held, rAck, seen>>

\* json.dump(config, f) and the close of the with block, then
\* self.proxy_config = config; return True.  A write that raises leaves what
\* had reached the file and the call returns False.
SaveDump ==
    /\ apiPc = "save_dump"
    /\ \/ /\ configFile' = [state |-> "complete", rules |-> apiOp.config]
          /\ Hold(apiOp.config)
          /\ apiOp' = [apiOp EXCEPT !.result = "success"]
       \/ /\ \E st \in {"empty", "truncated"} :
                configFile' = [state |-> st, rules |-> <<>>]
          /\ apiOp' = [apiOp EXCEPT !.result = "error"]
          /\ UNCHANGED <<rules, apiRules, held>>
    /\ apiPc' = "ready"
    /\ UNCHANGED <<workerVars, caVars, revVars, resolveVars, program, ops, rAck, seen>>

\* AppAPI._load_config, called by get_config from another thread of the
\* interface: json.load of the file as it is now; on success the dict it
\* returns becomes self.proxy_config, on an exception the old one is kept
LoadConfig ==
    /\ program = "app" /\ seen = "none"
    /\ seen' = configFile.state
    /\ IF configFile.state = "complete"
       THEN Hold(configFile.rules)
       ELSE UNCHANGED <<rules, apiRules, held>>
    /\ UNCHANGED <<workerVars, caVars, revVars,
                   resolveVars, program, configFile, apiPc, apiOp, ops, rAck>>

\* what the management interface has answered so far
Answered ==
    IF apiOp.op = "none" THEN "none"
    ELSE IF apiPc = "ready" THEN "returned" ELSE "in_flight"

\* a newly accepted connection resolves its host: get_target_domain at lines
\* 252 and 280 of mitm_proxy.py, proxy() at lines 221-222 of proxy_server.py
ConnResolve ==
    /\ ~rCalled
    /\ \E h \in AdminHosts :
        /\ rIn' = h
        /\ rOut' = Lookup(program, rules, h)
    /\ rCalled' = TRUE
    /\ rAck' = Answered
    /\ UNCHANGED <<rules, workerVars, caVars, revVars, program, apiRules, configFile, apiPc,
                   apiOp, ops,
                   held, seen>>

InitAdmin ==
    /\ rules \in ProxyRuleSets
    /\ program \in Programs
    /\ InitMgmt
    /\ InitWorkers
    /\ rCalled = FALSE
    /\ rIn = None
    /\ rOut = None

\* the MITM proxy's workers, which only app.py runs
AdminWorker(c) ==
    /\ program = "app"
    /\ \/ Accept(c)
       \/ ReadFails(c)
       \/ ReadMalformed(c)
       \/ ReadConnect(c)
       \/ ReadPlain(c)
       \/ ConnectExcept(c)
       \/ RequestFinally(c)
       \/ MitmConnect(c)
       \/ MitmWrapTarget(c)
       \/ MitmIssue(c)
       \/ MitmWriteCert(c)
       \/ MitmWriteKey(c)
       \/ MitmLoadChain(c)
       \/ MitmSend200(c)
       \/ MitmWrapClient(c)
       \/ MitmExcept(c)
       \/ MitmFinally(c)
       \/ TunnelConnect(c)
       \/ TunnelWrap(c)
       \/ TunnelSend200(c)
       \/ TunnelExcept(c)
       \/ TunnelFinally(c)
       \/ FwdConnect(c)
       \/ FwdSend(c)
       \/ FwdExcept(c)
       \/ FwdFinally(c)
       \/ RelayEnter(c)
       \/ RelaySelectTimeout(c)
       \/ RelayCopy(c)
       \/ RelayEnd(c)
       \/ Finalize(c)

\* the calls of the management interface, a reader of config.json and a
\* newly accepted connection
NextAdmin ==
    \/ \E source \in AdminSources, target \in AdminTargets : AddRule(source, target)
    \/ \E source \in AdminSources : DeleteRule(source)
    \/ SaveOpen
    \/ SaveDump
    \/ LoadConfig
    \/ ConnResolve

SpecAdmin == InitAdmin /\ [][NextAdmin]_vars

\* rules are added while the proxy's workers serve connections
NextAddRule ==
    \/ \E c \in RelayConns : AdminWorker(c)
    \/ \E source \in AdminSources, target \in AdminTargets : AddRule(source, target)
    \/ SaveOpen
    \/ SaveDump
    \/ ConnResolve

SpecAddRule == InitAdmin /\ [][NextAddRule]_vars

\* -------------------------------------------------------- CertManager
MaxGens == 2
\* the PEM content of successive freshly generated pairs: a new RSA key and
\* x509.random_serial_number() each time                      (lines 55-100)
CaNames == <<"ca1", "ca2", "ca3", "ca4">>

\* Mutant: generation reproduces the pair that was persisted first.
NewCARepeats(g) == "ca"

\* the content of the g+1-th generated pair
NewCA(g) == CaNames[g + 1]

ExistsIn(d, f) == \E e \in d : e[1] = f
ContentOf(d, f) == (CHOOSE e \in d : e[1] = f)[2]
\* load_pem_private_key / load_pem_x509_certificate accept the content
Parses(content) == content # "junk"
OnDisk(d) == [cert |-> IF ExistsIn(d, CA_CERT_FILE) THEN ContentOf(d, CA_CERT_FILE)
                       ELSE "none",
              key |-> IF ExistsIn(d, CA_KEY_FILE) THEN ContentOf(d, CA_KEY_FILE)
                      ELSE "none"]
FilesFound(d) ==
    IF ExistsIn(d, CA_CERT_FILE) /\ ExistsIn(d, CA_KEY_FILE) THEN "both"
    ELSE IF ExistsIn(d, CA_CERT_FILE) \/ ExistsIn(d, CA_KEY_FILE) THEN "one"
    ELSE "none"

\* Mutant: persisted material that does not parse is replaced by a new pair.
LoadOutcomeRegenerates(d) ==
    IF FilesFound(d) = "both" /\ Parses(OnDisk(d).key) /\ Parses(OnDisk(d).cert)
    THEN "load" ELSE "generate"

\* _load_or_generate_ca                                      (lines 37-50)
LoadOutcome(d) ==
    IF FilesFound(d) = "both"
    THEN IF Parses(OnDisk(d).key) /\ Parses(OnDisk(d).cert) THEN "load" ELSE "raise"
    ELSE "generate"

\* the pieces of a process start: both entry points construct
\* MITMProxyServer twice (mitm_proxy.py 475-478, app.py 207-214), each
\* construction builds a CertManager, then run() is called
AfterLoad(st) == IF st = "down" THEN "first" ELSE "second"

\* MITMProxyServer.__init__: self.cert_manager = CertManager()
LoadCA ==
    /\ startup \in {"down", "first"}
    /\ \/ /\ LoadOutcome(disk) = "load"
          /\ yielded' = OnDisk(disk)
          /\ UNCHANGED <<disk, gens>>
          /\ startup' = AfterLoad(startup)
          /\ yieldedPrev' = yielded
          /\ found' = [files |-> FilesFound(disk), untouched |-> ~touched]
          /\ touched' = FALSE
       \/ /\ LoadOutcome(disk) = "generate"
          /\ gens < MaxGens
          /\ disk' = Written(Written(disk, CA_KEY_FILE, NewCA(gens)),
                             CA_CERT_FILE, NewCA(gens))
          /\ yielded' = [cert |-> NewCA(gens), key |-> NewCA(gens)]
          /\ gens' = gens + 1
          /\ startup' = AfterLoad(startup)
          /\ yieldedPrev' = yielded
          /\ found' = [files |-> FilesFound(disk), untouched |-> ~touched]
          /\ touched' = FALSE
       \/ /\ LoadOutcome(disk) = "raise"
          /\ startup' = "failed"
          /\ UNCHANGED <<disk, gens, yielded, yieldedPrev, found, touched>>
    /\ UNCHANGED <<rules, pc, sessVars, sockVars, cert_file, key_file, leaf, loaded,
                   dialed, events, idle, resolveVars, byteVars, adminVars, revVars, issued>>

\* proxy.run(): bind, listen, accept
Run ==
    /\ startup = "second"
    /\ startup' = "listening"
    /\ UNCHANGED <<rules, workerVars, resolveVars, adminVars, revVars, yielded, yieldedPrev,
                   gens, touched, found, issued>>

\* the process ends: KeyboardInterrupt (lines 467-471) or the uncaught
\* exception of a failed start
Stop ==
    /\ startup \in {"listening", "failed"}
    /\ startup' = "down"
    /\ UNCHANGED <<rules, workerVars, resolveVars, adminVars, revVars, yielded, yieldedPrev,
                   gens, touched, found, issued>>

\* the user removes persisted files
DeleteFiles(fs) ==
    /\ \E f \in fs : ExistsIn(disk, f)
    /\ disk' = {e \in disk : e[1] \notin fs}
    /\ touched' = TRUE
    /\ UNCHANGED <<rules, pc, sessVars, sockVars, cert_file, key_file, leaf, loaded,
                   dialed, events, idle, resolveVars, byteVars, adminVars, revVars, startup,
                   yielded, yieldedPrev, gens, found, issued>>

\* a persisted file is damaged: what it holds is no PEM any more
DamageFile(f) ==
    /\ ExistsIn(disk, f)
    /\ ContentOf(disk, f) # "junk"
    /\ disk' = Written(disk, f, "junk")
    /\ touched' = TRUE
    /\ UNCHANGED <<rules, pc, sessVars, sockVars, cert_file, key_file, leaf, loaded,
                   dialed, events, idle, resolveVars, byteVars, adminVars, revVars, startup,
                   yielded, yieldedPrev, gens, found, issued>>

\* Mutant: the wildcard covers the last label only.
SanListLastDot(domain) ==
    IF Contains(domain, <<".">>)
    THEN <<domain, <<"*">> \o <<".">> \o Last(Split(domain, <<".">>))>>
    ELSE <<domain>>

\* san_list of generate_cert_for_domain                     (lines 136-141)
SanList(domain) ==
    IF Contains(domain, <<".">>)
    THEN <<domain, <<"*">> \o SubSeq(domain, FindFirst(domain, <<".">>), Len(domain))>>
    ELSE <<domain>>

API_EXAMPLE_COM == <<"a", "p", "i", ".", "e", "x", "a", "m", "p", "l", "e", ".", "c", "o", "m">>
LeafAlphabet == {"a", "."}
LeafDomains ==
    UNION {[1..n -> LeafAlphabet] : n \in 1..MaxLen} \cup {API_EXAMPLE_COM}

\* self.cert_manager.generate_cert_for_domain(domain)
IssueLeaf ==
    /\ startup \in {"first", "second", "listening"}
    /\ \E d \in LeafDomains : issued' = [domain |-> d, san |-> SanList(d)]
    /\ UNCHANGED <<rules, workerVars, resolveVars, adminVars, revVars, startup, yielded,
                   yieldedPrev, gens, touched, found>>

\* the process is not running; cert_dir holds the pair of an earlier run
InitCA ==
    /\ rules \in ProxyRuleSets
    /\ program = "app"
    /\ apiRules = rules
    /\ configFile = [state |-> "complete", rules |-> rules]
    /\ apiPc = "ready"
    /\ apiOp = NoOp
    /\ ops = 0
    /\ held = {rules}
    /\ rAck = "none"
    /\ seen = "none"
    /\ InitWorkers
    /\ rCalled = FALSE
    /\ rIn = None
    /\ rOut = None
    /\ startup = "down"
    /\ yielded = NoCA
    /\ yieldedPrev = NoCA
    /\ gens = 0
    /\ touched = FALSE
    /\ found = NothingFound
    /\ issued = NoLeaf
    /\ revCalled = FALSE
    /\ rRev = None

NextCA ==
    \/ LoadCA
    \/ Run
    \/ Stop
    \/ \E fs \in (SUBSET {CA_CERT_FILE, CA_KEY_FILE}) \ {{}} : DeleteFiles(fs)
    \/ \E f \in {CA_CERT_FILE, CA_KEY_FILE} : DamageFile(f)
    \/ IssueLeaf

SpecCA == InitCA /\ [][NextCA]_vars


\* ================================================================ claims
ConnectReq(c) ==
    /\ request[c].tokens >= 2
    /\ Upper(request[c].method) = "CONNECT"

\* the CONNECT line is host:port with an integer port, or a bare host
WellFormedConnect(c) == ConnectReq(c) /\ ConnectParses(request[c].url)

LineHost(c) == ConnectHost(request[c].url)
LinePort(c) == ConnectPort(request[c].url)
Resolved(c) == get_target_domain(rules, LineHost(c))

\* e1 and then e2 are in the worker's log, in this order
Before(c, e1, e2) == 0 < Pos(c, e1) /\ Pos(c, e1) < Pos(c, e2)

Attempted502(c) == Has(c, "w502_ok") \/ Has(c, "w502_fail")

\* C1: every well-formed CONNECT is in exactly one of the modes MITM and
\* Tunnel, MITM exactly when the resolver changes the host of the CONNECT
\* line, Tunnel exactly when it returns it; the mode is set before connect()
\* is called for the upstream, and once set it never changes.
C1_ModeAtDispatch ==
    \A c \in Conns :
        /\ WellFormedConnect(c) =>
            /\ mode[c] \in {"MITM", "Tunnel"}
            /\ mode[c] = "MITM" <=> Resolved(c) # LineHost(c)
            /\ mode[c] = "Tunnel" <=> Resolved(c) = LineHost(c)
        /\ dialed[c] # <<>> => mode[c] # "none"
        /\ mode[c] = "MITM" => pc[c] \notin {"tunnel_connect", "tunnel_wrap",
               "tunnel_send200", "tunnel_except", "tunnel_finally"}

C1_ModeStable == \A c \in Conns : mode[c] # "none" => mode'[c] = mode[c]

C1_ModeChosenOnce == []C1_ModeAtDispatch /\ [][C1_ModeStable]_vars

\* a MITM session that failed and ended as MITM, beside a Tunnel in its relay
C1_Witness ==
    \E c, d \in Conns :
        /\ mode[c] = "MITM" /\ Has(c, "connect_fail") /\ pc[c] = "done"
        /\ mode[d] = "Tunnel" /\ pc[d] = "relay"

\* C2: in a MITM session the leaf certificate is issued for the host of the
\* CONNECT line, never for the resolved host, and connect() is called with
\* (the resolved host, the port of the CONNECT line).
C2_LeafOriginalDialResolved ==
    \A c \in Conns : mode[c] = "MITM" =>
        /\ Has(c, "leaf_ok") => leaf[c] = LineHost(c) /\ leaf[c] # Resolved(c)
        /\ ~Has(c, "leaf_ok") => leaf[c] = None
        /\ \A k \in 1..Len(dialed[c]) : dialed[c][k] = <<Resolved(c), LinePort(c)>>

C2_Witness ==
    \E c \in Conns :
        /\ mode[c] = "MITM" /\ Has(c, "leaf_ok") /\ Len(dialed[c]) = 1
        /\ LineHost(c) = <<"n">> \o M_X

\* C3: in a MITM session 200 is written only after the upstream connect, the
\* upstream TLS handshake and the leaf issuance have succeeded, in this order;
\* when one of them has failed no write of 200 is made.
C3_200AfterUpstreamAndLeaf ==
    \A c \in Conns : mode[c] = "MITM" =>
        /\ (Has(c, "w200_ok") \/ Has(c, "w200_fail")) =>
            /\ Before(c, "connect_ok", "tls_up_ok")
            /\ Before(c, "tls_up_ok", "leaf_ok")
            /\ Pos(c, "leaf_ok") < Pos(c, IF Has(c, "w200_ok") THEN "w200_ok"
                                            ELSE "w200_fail")
        /\ (Has(c, "connect_fail") \/ Has(c, "tls_up_fail") \/ Has(c, "leaf_fail")) =>
            ~Has(c, "w200_ok") /\ ~Has(c, "w200_fail")

C3_Witness ==
    \E c, d \in Conns :
        /\ mode[c] = "MITM" /\ Has(c, "w200_ok")
        /\ mode[d] = "MITM" /\ Has(d, "leaf_fail") /\ pc[d] = "done"

\* C4: the write of 200 has completed before the client socket is handed to
\* the server-side TLS handshake (MITM) or to the relay (Tunnel); the relay
\* starts after the 200 write and, in MITM, after the client-side handshake.
C4_200BeforeUpgradeAndRelay ==
    \A c \in Conns : mode[c] \in {"MITM", "Tunnel"} =>
        /\ Has(c, "tls_client_ok") => Before(c, "w200_ok", "tls_client_ok")
        /\ Has(c, "tls_client_fail") => Before(c, "w200_ok", "tls_client_fail")
        /\ pc[c] = "mitm_wrap_client" => Has(c, "w200_ok")
        /\ Has(c, "relay_start") => Before(c, "w200_ok", "relay_start")
        /\ (Has(c, "relay_start") /\ mode[c] = "MITM") =>
              Before(c, "tls_client_ok", "relay_start")

C4_Witness ==
    \E c, d \in Conns :
        /\ mode[c] = "MITM" /\ pc[c] = "relay"
        /\ mode[d] = "Tunnel" /\ pc[d] = "relay"

\* one of do_mitm's steps before the relay has failed
MitmStepFailed(c) ==
    \E e \in {"connect_fail", "tls_up_fail", "leaf_fail", "write_fail", "load_fail",
              "w200_fail", "tls_client_fail"} : Has(c, e)

\* C5: a MITM session one of whose steps 1-5 failed never starts the relay,
\* attempts a write of 502 to the client, and is closed after the attempt.
C5_MitmFailureAborts ==
    \A c \in Conns : (mode[c] = "MITM" /\ MitmStepFailed(c)) =>
        /\ ~Has(c, "relay_start")
        /\ pc[c] \notin {"relay_call", "relay"}
        /\ pc[c] \in {"mitm_finally", "request_finally", "done"} => Attempted502(c)
        /\ pc[c] = "done" =>
            /\ client[c].fd = "closed"
            /\ Pos(c, IF Has(c, "w502_ok") THEN "w502_ok" ELSE "w502_fail")
                 < Pos(c, "close_client")

C5_Witness ==
    \E c, d \in Conns :
        /\ mode[c] = "MITM" /\ Has(c, "tls_client_fail") /\ pc[c] = "done"
        /\ mode[d] = "MITM" /\ Has(d, "leaf_fail") /\ Has(d, "w502_ok") /\ pc[d] = "done"

\* C6: in no state is a MITM session's relay running while a temp file of the
\* session is on disk.
C6_NoTempFileDuringRelay ==
    \A c \in Conns : (mode[c] = "MITM" /\ pc[c] = "relay") =>
        ~Exists(cert_file[c]) /\ ~Exists(key_file[c])

\* C7: a relay whose select() has timed out, no side having delivered data
\* for the idle timeout, is no longer running.
C7_IdleRelayTerminates ==
    \A c \in Conns : idle[c] >= 1 => pc[c] # "relay"

\* the temp files this session wrote that are still on disk
OwnTempFiles(c) == {e \in disk : e[2] = c}

\* C8: when the handler has returned, both legs of the session are closed,
\* their TLS-wrapped forms included, and the temp files it wrote are deleted.
C8_AllReleasedOnExit ==
    \A c \in Conns : pc[c] = "done" =>
        /\ client[c].fd # "open"
        /\ upstream[c].fd # "open"
        /\ OwnTempFiles(c) = {}

\* the rule keys as written in the rule set
KeyOf(i) == rules[i][1]
ValOf(i) == rules[i][2]

\* h is host or host:port, with a host and a port that are not empty
Authority(h) ==
    LET parts == Split(h, COLON) IN
    /\ Len(parts) \in {1, 2}
    /\ \A k \in 1..Len(parts) : parts[k] # <<>>

\* C9: a host, with or without a port suffix, that neither equals nor ends
\* with any rule key is returned unchanged.
C9_UnmatchedHostUnchanged ==
    (rCalled /\ Authority(rIn)) =>
        ((\A i \in 1..Len(rules) : rIn # KeyOf(i) /\ ~EndsWith(rIn, KeyOf(i)))
            => rOut = rIn)

\* a bare hostname: no port, no scheme
Bare(s) == ~Contains(s, COLON)

\* C10 as stated: for every rule source -> target of bare hostnames,
\* resolve(source) = target and resolve(x + source) = target for every
\* non-empty prefix x of hostname characters.
C10_EveryRuleWins ==
    rCalled =>
        \A i \in 1..Len(rules) :
            ( /\ Bare(KeyOf(i)) /\ Bare(ValOf(i)) /\ Bare(rIn)
              /\ EndsWith(rIn, KeyOf(i)) )
            => rOut = ValOf(i)

\* C10 amended: for every rule source -> target of bare hostnames and every
\* colon-free host h that is source or x + source, x on a label boundary or
\* not, resolve(h) = target unless a rule earlier in the rule set's iteration
\* order also matches h.
C10_FirstMatchingRuleWins ==
    rCalled =>
        \A i \in 1..Len(rules) :
            ( /\ Bare(KeyOf(i)) /\ Bare(ValOf(i)) /\ Bare(rIn)
              /\ EndsWith(rIn, KeyOf(i))
              /\ \A j \in 1..(i - 1) : ~EndsWith(rIn, StripScheme(KeyOf(j))) )
            => rOut = ValOf(i)

\* the second rule decides a host that extends its key inside a label
C10_Witness ==
    /\ rCalled
    /\ Len(rules) = 2
    /\ rules[2] = << <<"a">>, <<"t">> >>
    /\ rIn = <<"b", "b", "a">>
    /\ ~EndsWith(rIn, StripScheme(KeyOf(1)))
    /\ rOut = <<"t">>

\* what s://h:p names: the host between the scheme prefix and the port suffix
HostOf(h) ==
    LET i == FindFirst(h, SCHEME_SEP)
        rest == IF i = 0 THEN h ELSE SubSeq(h, i + Len(SCHEME_SEP), Len(h)) IN
    Split(rest, COLON)[1]

\* the rule set with every key and value written as a bare hostname
BareRules == [i \in 1..Len(rules) |-> <<StripScheme(KeyOf(i)), StripScheme(ValOf(i))>>]

\* C11: the scheme prefix and the port suffix of the input are stripped before
\* matching, resolve(s://h:p) = resolve(h), and a rule key or value written
\* with a scheme prefix behaves as the bare hostname.
C11_SchemeAndPortStripped ==
    ( /\ rCalled
      /\ Len(Split(rIn, SCHEME_SEP)) <= 2
      /\ Authority(HostOf(rIn)) /\ HostOf(rIn)[1] # "." ) =>
        /\ rOut = get_target_domain(rules, HostOf(rIn))
        /\ rOut = get_target_domain(BareRules, rIn)

\* the authority a non-CONNECT request names: of its absolute URL, or of its
\* Host header
RequestAuthority(c) == Netloc(FullUrl(request[c]))

\* the rules whose key the host of the authority equals or ends with
MatchingRules(host) ==
    {i \in 1..Len(rules) : EndsWith(host, StripScheme(KeyOf(i)))}

\* C12: a non-CONNECT request is dialed at the mapped target when a rule
\* matches its authority, and at its own authority, same host and same port
\* (80 when it names none), when no rule matches.
C12_DialsResolvedAuthority ==
    \A c \in Conns : (mode[c] = "PlainForward" /\ dialed[c] # <<>>) =>
        LET auth == RequestAuthority(c)
            m == MatchingRules(Hostname(auth)) IN
        IF m # {}
        THEN dialed[c][1][1] = StripScheme(ValOf(CHOOSE i \in m : \A j \in m : i <= j))
        ELSE dialed[c][1] = <<Hostname(auth), PortOr80(auth)>>

\* a is an initial part of b
IsPrefix(a, b) == Len(a) <= Len(b) /\ SubSeq(b, 1, Len(a)) = a

\* C13: what forward_http writes to the upstream first is the head as it was
\* read from the client, unmodified, and it is written before the relay
\* starts; what the upstream sends is then relayed to the client unmodified
\* and in order.
C13_HeadVerbatimThenRelay ==
    \A c \in Conns : mode[c] = "PlainForward" =>
        /\ Has(c, "head_sent") => headSent[c] = request[c]
        /\ ~Has(c, "head_sent") => headSent[c] = NoReq /\ put[c]["target"] = <<>>
        /\ Has(c, "relay_start") => Before(c, "head_sent", "relay_start")
        /\ IsPrefix(put[c]["client"], got[c]["target"])

\* a request whose url the mapping rewrote went out as it came in, and two
\* bytes of the answer have reached the client
C13_Witness ==
    \E c \in Conns :
        /\ mode[c] = "PlainForward"
        /\ ForwardUrl(rules, request[c]) # request[c].url
        /\ headSent[c] = request[c]
        /\ Len(put[c]["client"]) = 2
        /\ put[c]["client"] = got[c]["target"]

\* the bytes a peer has sent so far, as recv returns them
SentBy(c, side) == got[c][side] \o inbox[c][side]

\* C14: in a Tunnel, on every port, port 443 included, what arrives on the
\* target's connection is an initial part of what the client sent after the
\* 200, unmodified and in order, and what arrives on the client's connection
\* is an initial part of what travelled on the target's.
C14_TunnelPassesBytesThrough ==
    \A c \in Conns : mode[c] = "Tunnel" =>
        /\ IsPrefix(OnWire(upstream[c], put[c]["target"]), SentBy(c, "client"))
        /\ IsPrefix(put[c]["client"], OnWire(upstream[c], SentBy(c, "target")))

\* the relay's writes to side 'to' against its reads from side 'from'
Transparent(c, from, to) ==
    /\ IsPrefix(put[c][to], got[c][from])
    /\ \A k \in 1..Len(put[c][to]) : put[c][to][k].from = from
    /\ pc[c] \in {"relay", "relay_recv"} => put[c][to] = got[c][from]
    /\ pc[c] = "relay_send" =>
          got[c][from] = put[c][to] \o (IF data[c].from = from THEN data[c].bytes
                                                             ELSE <<>>)
    /\ (pc[c] \notin RelayPcs /\ put[c][to] # got[c][from]) =>
          Has(c, "relay_send_fail")

\* C15: in every state and in each direction, what the relay has written to
\* one side is an initial part of what it has read from the other side, with
\* nothing modified, reordered, duplicated or written back to the side it was
\* read from, and a chunk that was read is written to the opposite side
\* before the next recv unless its sendall fails.
C15_RelayTransparent ==
    \A c \in Conns :
        /\ Transparent(c, "client", "target")
        /\ Transparent(c, "target", "client")

\* an intercepted session that has copied two bytes each way
C15_Witness ==
    \E c \in Conns :
        /\ mode[c] = "MITM"
        /\ Len(put[c]["target"]) = 2 /\ put[c]["target"] = got[c]["client"]
        /\ Len(put[c]["client"]) = 2 /\ put[c]["client"] = got[c]["target"]

\* C16: after a zero-byte read on either side the relay is no longer running,
\* and when the handler has returned both sockets of the relay are closed.
C16_EofEndsRelayAndCloses ==
    \A c \in Conns : Has(c, "eof") =>
        /\ pc[c] \notin RelayPcs
        /\ Has(c, "relay_end")
        /\ pc[c] = "done" => client[c].fd = "closed" /\ upstream[c].fd = "closed"

Wrote200(c) == Has(c, "w200_ok") \/ Has(c, "w200_fail")

UpstreamFailed(c) == Has(c, "connect_fail") \/ Has(c, "tls_up_fail")

\* the order of a Tunnel's 200 after the upstream steps, and no 200 and no
\* relay after a failed upstream step
TunnelOrder(c) ==
    /\ Wrote200(c) =>
          LET w == IF Has(c, "w200_ok") THEN "w200_ok" ELSE "w200_fail" IN
          /\ Before(c, "connect_ok", w)
          /\ port[c] = 443 => Before(c, "connect_ok", "tls_up_ok") /\ Before(c, "tls_up_ok", w)
    /\ UpstreamFailed(c) =>
          /\ ~Wrote200(c)
          /\ ~Has(c, "relay_start")
          /\ pc[c] \notin {"tunnel_send200", "relay_call", "relay"}

\* the handler is past do_tunnel's except clause
PastTunnelExcept(c) == pc[c] \in {"tunnel_finally", "request_finally", "done"}

\* C17 as stated: in a Tunnel 200 is written only after the upstream connect
\* and, on port 443, the upstream TLS handshake have succeeded; when one of
\* them fails, 502 is written, 200 is never written and the relay is never
\* started.
C17_TunnelFailureWrites502 ==
    \A c \in Conns : mode[c] = "Tunnel" =>
        /\ TunnelOrder(c)
        /\ (UpstreamFailed(c) /\ PastTunnelExcept(c)) => Has(c, "w502_ok")

\* C17 amended: as stated, but on failure a write of 502 is attempted, once,
\* and it is not written when the write to the client fails.
C17_TunnelFailureAttempts502 ==
    \A c \in Conns : mode[c] = "Tunnel" =>
        /\ TunnelOrder(c)
        /\ (UpstreamFailed(c) /\ PastTunnelExcept(c)) => Attempted502(c)

\* a Tunnel to port 443 that wrote 200 after the handshake, beside one whose
\* handshake failed and that answered 502
C17_Witness ==
    \E c, d \in Conns :
        /\ mode[c] = "Tunnel" /\ port[c] = 443 /\ Has(c, "w200_ok")
        /\ mode[d] = "Tunnel" /\ Has(d, "tls_up_fail") /\ Has(d, "w502_ok")
        /\ pc[d] = "done"

\* C18: a Tunnel forges nothing: from dispatch to the handler's exit the
\* session issues no leaf certificate, creates no temp certificate or key
\* file, and the CA files stay as the constructor left them.
C18_TunnelForgesNothing ==
    \A c \in Conns : mode[c] = "Tunnel" =>
        /\ leaf[c] = None
        /\ \A e \in {"leaf_ok", "leaf_fail", "cert_written", "key_written",
                      "write_fail", "chain_loaded", "load_fail"} : ~Has(c, e)
        /\ cert_file[c] = None /\ key_file[c] = None
        /\ OwnTempFiles(c) = {}
        /\ loaded[c] = "nobody"
        /\ CAFiles \subseteq disk
        /\ \A e \in disk : e[1] \in {CA_CERT_FILE, CA_KEY_FILE} => e[2] = "ca"

\* a Tunnel that has run to its end beside an intercepted session whose
\* temp files are on disk
C18_Witness ==
    \E c, d \in Conns :
        /\ mode[c] = "Tunnel" /\ Has(c, "relay_end") /\ pc[c] = "done"
        /\ mode[d] = "MITM" /\ OwnTempFiles(d) # {}

\* a response line was written to the client
Responded(c) == Has(c, "w200_ok") \/ Has(c, "w502_ok")

\* C19: a head that was still incomplete when the peer closed (no CRLF CRLF
\* received) is never dispatched: no upstream connection is opened, no
\* response is written, and the connection is closed.
C19_IncompleteHeadNotDispatched ==
    \A c \in Conns : (request[c] # NoReq /\ ~request[c].complete) =>
        /\ ~Has(c, "dispatch")
        /\ dialed[c] = <<>>
        /\ ~Responded(c)
        /\ pc[c] = "done" => client[c].fd = "closed"

\* a first line with fewer than two tokens, or a request other than CONNECT
\* with an origin-form target and no Host header
MalformedHead(c) ==
    /\ request[c] # NoReq
    /\ \/ request[c].tokens < 2
       \/ /\ Upper(request[c].method) # "CONNECT"
          /\ ~Contains(request[c].url, SCHEME_SEP)
          /\ request[c].host = None

Attempts(c, es) == {k \in 1..Len(events[c]) : events[c][k] \in es}

\* C21: an upstream connect or handshake failure is never retried: in every
\* mode a connection makes at most one upstream connect and at most one
\* upstream handshake, and none after one of them has failed.
C21_OneUpstreamAttempt ==
    \A c \in Conns :
        /\ Len(dialed[c]) <= 1
        /\ Cardinality(Attempts(c, {"connect_ok", "connect_fail"})) <= 1
        /\ Cardinality(Attempts(c, {"tls_up_ok", "tls_up_fail"})) <= 1
        /\ UpstreamFailed(c) =>
              pc[c] \notin {"mitm_connect", "mitm_wrap_target", "tunnel_connect",
                            "tunnel_wrap", "fwd_connect"}

\* a failed connect in an intercepted session and a failed handshake in a
\* Tunnel, both handlers ended after their single attempt
C21_Witness ==
    \E c, d \in Conns :
        /\ mode[c] = "MITM" /\ Has(c, "connect_fail") /\ pc[c] = "done"
        /\ Len(dialed[c]) = 1
        /\ mode[d] = "Tunnel" /\ Has(d, "tls_up_fail") /\ pc[d] = "done"
        /\ Len(dialed[d]) = 1

\* an error of one of the kinds a handler can meet is in the worker's log
HandlerError(c) ==
    \E e \in {"recv_error", "framing_error", "connect_fail", "tls_up_fail",
               "leaf_fail", "relay_end"} : Has(c, e)

\* the accept loop takes a connection whenever a worker slot is free
AcceptOpen == \A d \in Conns : pc[d] = "idle" => ENABLED Accept(d)

\* a step of worker c leaves the session of every other worker as it was
Isolated ==
    \A c, d \in Conns : (c # d /\ (pc'[c] # pc[c] \/ events'[c] # events[c])) =>
        /\ client'[d] = client[d]
        /\ upstream'[d] = upstream[d]
        /\ target_socket'[d] = target_socket[d]
        /\ mode'[d] = mode[d]
        /\ pc'[d] = pc[d]
        /\ idle'[d] = idle[d]
        /\ events'[d] = events[d]

C23_WorkerTerminates ==
    \A c \in RelayConns : (pc[c] = "read_head") ~> (pc[c] = "done")

\* C24: after addRule(source, target) has returned success, a connection the
\* running proxy accepts afterwards resolves source to target; after
\* deleteRule(source) has returned success it resolves source to itself.
C24_MutationReachesProxy ==
    (/\ program = "app" /\ rCalled /\ rAck = "returned"
     /\ apiOp.result = "success" /\ rIn = apiOp.source) =>
        /\ apiOp.op = "add" => rOut = apiOp.target
        /\ apiOp.op = "delete" => rOut = apiOp.source

\* what resolve returned is what one of the rule sets the management
\* interface has held, each of them whole, yields for the same host
SeesWholeRuleSet == rCalled => \E S \in held : rOut = Lookup(program, S, rIn)

\* a step of the management interface leaves every worker where it is
MutationSparesWorkers ==
    (apiOp' # apiOp \/ apiRules' # apiRules \/ configFile' # configFile) =>
        /\ pc' = pc
        /\ events' = events
        /\ client' = client
        /\ upstream' = upstream
        /\ idle' = idle

C26_ReaderSeesWholeFile == seen \in {"none", "complete"}

\* a step in which a CertManager was constructed and its load returned
LoadStep == startup' # startup /\ startup' \in {"first", "second"}

\* a load that finds both files leaves both as they are
LoadKeepsFiles ==
    (LoadStep /\ ExistsIn(disk, CA_CERT_FILE) /\ ExistsIn(disk, CA_KEY_FILE)) =>
        disk' = disk

\* two loads with both files present and untouched in between yield the same
\* pair; a load that finds neither file yields a pair that differs from the
\* previous one in certificate and key, and persists it
LoadsAgree ==
    /\ (found.files = "both" /\ found.untouched /\ yieldedPrev # NoCA) =>
          yielded = yieldedPrev
    /\ (found.files = "none" /\ yieldedPrev # NoCA) =>
          /\ yielded.cert # yieldedPrev.cert
          /\ yielded.key # yieldedPrev.key
          /\ ~touched => OnDisk(disk) = yielded

\* C27: loading the CA twice, in one process or across restarts, with both
\* persisted files present yields the same certificate and key and leaves
\* both files unchanged; after both files were deleted the next load
\* generates and persists a pair that differs from the previous one.
C27_LoadIsStable == []LoadsAgree /\ [][LoadKeepsFiles]_vars

\* both files were deleted after a run and the next start generated and
\* persisted a new pair
C27_Witness ==
    /\ found.files = "none"
    /\ yieldedPrev = [cert |-> "ca", key |-> "ca"]
    /\ yielded = [cert |-> "ca1", key |-> "ca1"]
    /\ OnDisk(disk) = yielded
    /\ startup = "second"

\* both files exist and one of them does not parse
Unparsable(d) ==
    /\ FilesFound(d) = "both"
    /\ ~Parses(ContentOf(d, CA_CERT_FILE)) \/ ~Parses(ContentOf(d, CA_KEY_FILE))

\* a start that finds unparsable material fails and changes nothing, and a
\* failed start never reaches the listener
FailedStart ==
    /\ (startup \in {"down", "first"} /\ startup' # startup /\ Unparsable(disk)) =>
          /\ startup' = "failed"
          /\ disk' = disk
          /\ gens' = gens
          /\ yielded' = yielded
    /\ startup = "failed" => startup' \in {"failed", "down"}

\* C28: if the persisted CA material exists but cannot be parsed, startup
\* fails with an error: no new CA is generated, neither persisted file is
\* modified, and the listener is never started.
C28_UnparsableCAIsFatal ==
    /\ [][FailedStart]_vars
    /\ [](startup = "listening" => (Parses(yielded.cert) /\ Parses(yielded.key)))

\* a start has failed on a damaged key file beside an intact certificate
C28_Witness ==
    /\ startup = "failed"
    /\ OnDisk(disk) = [cert |-> "ca", key |-> "junk"]
    /\ gens = 0

\* the part of d from its first dot onwards
FromFirstDot(d) ==
    LET i == CHOOSE k \in 1..Len(d) : d[k] = "." /\ \A j \in 1..(k - 1) : d[j] # "."
    IN  [k \in 1..(Len(d) - i + 1) |-> d[i + k - 1]]

STAR_EXAMPLE_COM == <<"*", ".", "e", "x", "a", "m", "p", "l", "e", ".", "c", "o", "m">>

\* C29: the SAN list of the leaf issued for d is [d] when d has no dot and
\* [d, "*" + (d from its first dot onwards)] when it has one; for
\* api.example.com it is api.example.com and *.example.com.
C29_SanList ==
    issued # NoLeaf =>
        LET d == issued.domain IN
        /\ (\A k \in 1..Len(d) : d[k] # ".") => issued.san = <<d>>
        /\ (\E k \in 1..Len(d) : d[k] = ".") =>
              issued.san = <<d, <<"*">> \o FromFirstDot(d)>>
        /\ d = API_EXAMPLE_COM => issued.san = <<API_EXAMPLE_COM, STAR_EXAMPLE_COM>>

\* the leaf for api.example.com has been issued
C29_Witness == issued.domain = API_EXAMPLE_COM /\ Len(issued.san) = 2

\* C30: the resolver of the MITM proxy and the rule lookup of the reverse
\* proxy agree, for every rule set with at most one rule matching the host,
\* on whether a rule applies and on the target it yields, for an exact match
\* and for a suffix match alike.
C30_ResolversAgree ==
    ( /\ revCalled
      /\ Bare(rIn)
      /\ \A i \in 1..Len(rules) : Bare(KeyOf(i)) /\ Bare(ValOf(i))
      /\ Cardinality(MatchingRules(rIn)) <= 1 ) =>
        /\ MatchingRules(rIn) # {} <=> rRev # None
        /\ MatchingRules(rIn) # {} => rRev = rOut

\* C31: on one client connection the proxy writes at most one status line:
\* once 200 Connection Established has been written, no write of 502 Bad
\* Gateway is attempted, whatever fails afterwards.
C31_No502After200 ==
    \A c \in Conns :
        /\ ~(Has(c, "w200_ok") /\ Has(c, "w502_ok"))
        /\ Has(c, "w200_ok") => ~Attempted502(c)

\* C32: two MITM sessions for the same original host do not interfere through
\* the temp files: the pair a session loads is the pair it wrote, and between
\* a session's write and its load nobody deletes or replaces its files.
C32_OwnPairLoaded ==
    \A c \in Conns :
        /\ loaded[c] \in {"nobody", c}
        /\ pc[c] = "mitm_load_chain" =>
              /\ Exists(cert_file[c]) /\ Writer(cert_file[c]) = c
              /\ Exists(key_file[c]) /\ Writer(key_file[c]) = c

RECURSIVE SumSeq(_)
SumSeq(q) == IF q = <<>> THEN 0 ELSE Head(q) + SumSeq(Tail(q))

\* the bytes a peer has delivered to the proxy
DeliveredBytes(c, side) == SumSeq(delivered[c][side])

\* C33: while both sides of a relay are open and no I/O error has occurred,
\* whenever the loop waits in select() with nothing readable, every byte a
\* side has delivered has been written to the other side: nothing that was
\* delivered, plaintext held inside a TLS stream included, waits for the
\* sender to send more.
C33_DeliveredIsWritten ==
    \A c \in RelayConns : \A side \in Sides :
        (/\ pc[c] = "relay"
         /\ TlsReadable(c) = <<>>
         /\ ~eof[c]["client"] /\ ~eof[c]["target"]) =>
            written[c][Other(side)] = DeliveredBytes(c, side)

\* the management call op has returned, and no reader of config.json has
\* replaced the dict meanwhile
Returned(op) == apiOp.op = op /\ apiPc = "ready" /\ seen = "none"

\* C34: addRule is all-or-nothing: when it has returned an error the dict in
\* memory and config.json are what they were when it was called; when it has
\* returned success both hold source -> target and the file holds the dict.
C34_AddRuleAllOrNothing ==
    Returned("add") =>
        /\ apiOp.result = "error" =>
              /\ apiRules = apiOp.before
              /\ configFile = apiOp.fileBefore
        /\ apiOp.result = "success" =>
              /\ DictGet(apiRules, apiOp.source) = apiOp.target
              /\ configFile = [state |-> "complete", rules |-> apiRules]

\* C35: deleteRule answers "Rule not found" only when source was not a key
\* of the dict when it was called, and whenever it answers an error the dict
\* in memory is what it was when it was called.
C35_NotFoundMeansAbsent ==
    (Returned("delete") /\ apiOp.result = "error") =>
        /\ ~DictHas(apiOp.before, apiOp.source)
        /\ apiRules = apiOp.before

\* a construction of CertManager generates only when cert_dir holds neither
\* file, and leaves every file it finds as it is
StartupKeepsFiles ==
    (startup \in {"down", "first"} /\ startup' # startup) =>
        /\ gens' # gens => FilesFound(disk) = "none"
        /\ \A f \in {CA_CERT_FILE, CA_KEY_FILE} :
              ExistsIn(disk, f) =>
                  /\ ExistsIn(disk', f)
                  /\ ContentOf(disk', f) = ContentOf(disk, f)

\* C36: CA start-up never overwrites persisted CA material: a new CA is
\* generated and written only when neither ca-cert.pem nor ca-key.pem
\* exists, and when exactly one of the two exists that file is not replaced.
C36_StartupNeverOverwrites == [][StartupKeepsFiles]_vars

\* the worker has read a CONNECT line with target t
ConnectOf(c, t) ==
    /\ request[c].tokens >= 2
    /\ Upper(request[c].method) = "CONNECT"
    /\ request[c].url = t

\* a target with a port part that is not a single integer
BadPort(t) ==
    /\ Contains(t, COLON)
    /\ Len(Split(t, COLON)) # 2 \/ ~IsInt(Split(t, COLON)[2])

\* what C37 says of the connect() calls: a target without a port is dialed on
\* 443 only, a target with a bad port part is not dialed at all, gets no 200,
\* and its client socket is closed when the handler has returned
ConnectDialing(c) ==
    LET t == request[c].url IN
    /\ (ConnectOf(c, t) /\ ~Contains(t, COLON)) =>
          /\ port[c] = 443
          /\ \A k \in 1..Len(dialed[c]) : dialed[c][k][2] = 443
    /\ (ConnectOf(c, t) /\ BadPort(t)) =>
          /\ dialed[c] = <<>>
          /\ upstream[c] = NoSock
          /\ ~Has(c, "w200_ok") /\ ~Has(c, "w200_fail")
          /\ pc[c] \in {"connect_except", "request_finally", "done"}
          /\ pc[c] = "done" => client[c].fd = "closed"

\* C37 as stated: a CONNECT target without a port is dialed on port 443, and
\* a target whose port part is not a single valid integer opens no upstream
\* connection, gets a 502 reply and is closed.
C37_BadPortGets502 ==
    \A c \in Conns :
        /\ ConnectDialing(c)
        /\ (ConnectOf(c, request[c].url) /\ BadPort(request[c].url)
               /\ pc[c] \in {"request_finally", "done"}) => Has(c, "w502_ok")

\* C37 amended: as stated, but the 502 is a single attempted write, and it is
\* not written when the write to the client fails.
C37_BadPortAttempts502 ==
    \A c \in Conns :
        /\ ConnectDialing(c)
        /\ (ConnectOf(c, request[c].url) /\ BadPort(request[c].url)
               /\ pc[c] \in {"request_finally", "done"}) =>
              /\ Attempted502(c)
              /\ Len(SelectSeq(events[c],
                               LAMBDA e : e \in {"w502_ok", "w502_fail"})) = 1

\* a target with a non-numeric port was answered 502 and closed without a
\* connect(), beside a target without a port that was dialed on 443
C37_Witness ==
    \E c, d \in Conns :
        /\ ConnectOf(c, M_X \o <<":", "x">>)
        /\ pc[c] = "done" /\ Has(c, "w502_ok") /\ client[c].fd = "closed"
        /\ dialed[c] = <<>>
        /\ ConnectOf(d, U_X)
        /\ dialed[d] = <<<<U_X, 443>>>>

====
